---- MODULE Spec2Model ----
(***************************************************************************)
(* Model of the Entity/Model persistence engine of gstore-node             *)
(* (sebelga/datastools): Entity.save, Model.update, Model.delete and       *)
(* Model.deleteAll with their hook pipeline and transaction protocol.      *)
(*                                                                         *)
(* The repository holds three generations of the Model class:             *)
(*   "ts"  src/unnamed/part_006 (TypeScript), with lib/entity.js           *)
(*   "js"  src/unnamed/part_003 (promise based JavaScript)                 *)
(*   "cb"  src/unnamed/part_002 (callback based, promisified)              *)
(* The variable ver selects the generation a behaviour runs.               *)
(*                                                                         *)
(* One call is followed from its invocation to the settling of its        *)
(* promise. An action is one handler: the continuation that runs when     *)
(* the awaited store call, cache call or hook completes, up to and         *)
(* including the next call it issues.                                      *)
(***************************************************************************)
EXTENDS Integers, Sequences, FiniteSets, TLC

VARIABLES
    ver,        \* generation of the Model class: "ts", "js" or "cb"
    schema,     \* the Schema: hook queue lengths and options
    cacheOn,    \* Model.__hasCache(options)
    call,       \* the arguments of the call being followed
    pc,         \* the await point the call is suspended at
    idx,        \* index of the next hook to run at a hook await point
    internalTransaction, \* update(): the transaction was opened by the call
    ent,        \* the entity instance being saved
    modelHooksEnabled,   \* Model.__hooksEnabled (static)
    tx,         \* the Transaction object
    store,      \* the Datastore: key id -> record
    log,        \* the calls issued so far, in order
    outcome,    \* how the promise of the call settled
    err,        \* the error the promise is (or will be) rejected with
    da,         \* state of a Model.deleteAll call
    pop,        \* state of a Model.populate call
    fn          \* a call of a function of the library: arguments and result

vars == <<ver, schema, cacheOn, call, pc, idx, internalTransaction, ent,
          modelHooksEnabled, tx, store, log, outcome, err, da, pop, fn>>

(***************************************************************************)
(* Bounds                                                                  *)
(***************************************************************************)
MaxHooks == 2       \* hooks registered per method and phase

Versions == {"ts", "js", "cb"}

(***************************************************************************)
(* Data                                                                    *)
(***************************************************************************)
\* The schema declares the paths a (required) and b; z is undeclared.
SchemaPaths == {"a", "b"}

\* Values: "null" is the JavaScript null, "nullstr" the string 'null'.
EmptyRec == [f \in {} |-> "null"]

KeyId == "Kind/123"             \* the key the calls are about
IncompleteKey == "Kind/"        \* a key without id; the store allocates one
AllocatedId == "Kind/new"       \* the key of a record saved under IncompleteKey

StoredRec == [a |-> "x", b |-> "x"]

\* extend(false, entity, data): shallow merge of data over entity
extend(entity, data) ==
    [f \in (DOMAIN entity) \cup (DOMAIN data) |->
        IF f \in DOMAIN data THEN data[f] ELSE entity[f]]

\* Model.sanitize(data, { disabled: ['write'] }) on a schema with explicitOnly
sanitize(data) ==
    [f \in (DOMAIN data) \cap SchemaPaths |->
        IF data[f] = "nullstr" THEN "null" ELSE data[f]]

\* buildEntityData: paths without value get their default (null)
buildEntityData(data) ==
    [f \in (DOMAIN data) \cup SchemaPaths |->
        IF f \in DOMAIN data THEN data[f] ELSE "null"]

\* validation.validate: the required path a must not be empty
validate(data) == "a" \in DOMAIN data /\ data["a"] # "null"

(***************************************************************************)
(* The log                                                                 *)
(***************************************************************************)
\* a synchronous call (transaction.save, transaction.delete, dataloader.clear)
Ev(name) == [e |-> name, i |-> 0, ok |-> TRUE, done |-> TRUE]
\* an asynchronous call, issued; Done records how it completed
Rpc(name) == [e |-> name, i |-> 0, ok |-> TRUE, done |-> FALSE]
\* hook number k of a method and phase ran, and resolved or rejected
HookEv(name, k, ok) == [e |-> name, i |-> k, ok |-> ok, done |-> TRUE]

St == [pc |-> pc, idx |-> idx, internalTransaction |-> internalTransaction,
       ent |-> ent, modelHooksEnabled |-> modelHooksEnabled, tx |-> tx,
       store |-> store, log |-> log, outcome |-> outcome, err |-> err]

Set(n) ==
    /\ pc' = n.pc
    /\ idx' = n.idx
    /\ internalTransaction' = n.internalTransaction
    /\ ent' = n.ent
    /\ modelHooksEnabled' = n.modelHooksEnabled
    /\ tx' = n.tx
    /\ store' = n.store
    /\ log' = n.log
    /\ outcome' = n.outcome
    /\ err' = n.err

Log(s, ev) == [s EXCEPT !.log = Append(@, ev)]

\* the asynchronous call issued last completes
Done(s, ok) == [s EXCEPT !.log[Len(s.log)].ok = ok, !.log[Len(s.log)].done = TRUE]

\* the promise returned by the call settles
Resolve(s) == [s EXCEPT !.pc = "done", !.outcome = "resolved"]
Reject(s, e) == [s EXCEPT !.pc = "done", !.outcome = "rejected", !.err = e]

(***************************************************************************)
(* The Transaction object and the store                                    *)
(***************************************************************************)
\* kind: "none" (no transaction), "internal" (opened by update), "external"
\* (passed by the caller, already run), "bad" (not a Transaction instance)
NoTx == [kind |-> "none", state |-> "new", ops |-> <<>>, post |-> <<>>,
         scope |-> "none"]

TxOf(kind) ==
    [NoTx EXCEPT !.kind = kind,
                 !.state = IF kind = "external" THEN "running" ELSE "new"]

ApplyOp(st, o) ==
    IF o.op = "save"
      THEN LET k == IF o.key = IncompleteKey THEN AllocatedId ELSE o.key
           IN  [x \in (DOMAIN st) \cup {k} |-> IF x = k THEN o.data ELSE st[x]]
      ELSE [x \in (DOMAIN st) \ {o.key} |-> st[x]]

RECURSIVE ApplyOps(_, _)
ApplyOps(st, ops) ==
    IF ops = <<>> THEN st ELSE ApplyOps(ApplyOp(st, Head(ops)), Tail(ops))

\* the post hooks promised-hooks keeps for a method: __posts[method]
postHooksOf(method, n) == [k \in 1..n |-> [m |-> "post." \o method, i |-> k]]

\* registration that adds the pre queue as post hooks and the post queue as pre
registerHooksFromSchema_swapped(sc) == [pres |-> sc.nPostSave, post |-> sc.nPreSave]

\* entity.js 457-484: the entity gets the "save" hooks of the schema queue
registerHooksFromSchema(sc) == [pres |-> sc.nPreSave, post |-> sc.nPostSave]

\* part_006 102-122: the model gets the "delete" hooks of the schema queue
Model_registerHooksFromSchema(sc) ==
    [pres |-> sc.nPreDelete, post |-> sc.nPostDelete]

\* hooksTransaction that drops the hooks it is given
hooksTransaction_noAppend(t, scope, postHooks) == [t EXCEPT !.scope = scope]

\* Model.hooksTransaction, called with the entity or the model as this
hooksTransaction(t, scope, postHooks) ==
    [t EXCEPT !.post = @ \o postHooks, !.scope = scope]

(***************************************************************************)
(* Model.update: the handlers of the three generations                     *)
(***************************************************************************)
\* part_006 339-359: clear the cache of the key, then resolve
onTransactionSuccess(s) ==
    IF cacheOn
      THEN [Log(s, Rpc("cache.clear")) EXCEPT !.pc = "update.cache"]
      ELSE Resolve(s)

\* onUpdateError that rethrows without rolling back
onUpdateError_noRollback(s, e) == Reject(s, e)

\* part_006 326-337: roll back the transaction the call opened, rethrow
onUpdateError(s, e) ==
    IF s.internalTransaction
      THEN [Log(s, Rpc("tx.rollback")) EXCEPT !.pc = "update.rollback", !.err = e]
      ELSE Reject(s, e)

\* part_006 301-324: clear the dataloader, commit the internal transaction
onEntityUpdated(s) ==
    LET s1 == IF call.dl THEN Log(s, Ev("dl.clear")) ELSE s
    IN  IF s1.internalTransaction
          THEN [Log(s1, Rpc("tx.commit")) EXCEPT !.pc = "update.commit"]
          ELSE onTransactionSuccess(s1)

\* part_003 353-360: onUpdateError rolls back whenever there is a transaction
\* and hands the answer of rollback() to onTransactionError, which throws it
onUpdateError_js(s, e) ==
    IF s.tx.kind # "none"
      THEN [Log(s, Rpc("tx.rollback")) EXCEPT !.pc = "update.rollback",
                                             !.err = "ROLLBACK_RESPONSE"]
      ELSE Reject(s, e)

\* part_003 340-351: commit whenever there is a transaction
onEntityUpdated_js(s) ==
    LET s1 == IF call.dl THEN Log(s, Ev("dl.clear")) ELSE s
    IN  IF s1.tx.kind # "none"
          THEN [Log(s1, Rpc("tx.commit")) EXCEPT !.pc = "update.commit"]
          ELSE onTransactionSuccess(s1)

\* part_002 263-271: as part_003, the error kept in the closure is handed to cb
onUpdateError_cb(s, e) ==
    IF s.tx.kind # "none"
      THEN [Log(s, Rpc("tx.rollback")) EXCEPT !.pc = "update.rollback", !.err = e]
      ELSE Reject(s, e)

\* part_002 254-261: commit whenever there is a transaction
onEntityUpdated_cb(s) ==
    IF s.tx.kind # "none"
      THEN [Log(s, Rpc("tx.commit")) EXCEPT !.pc = "update.commit"]
      ELSE Resolve(s)

(***************************************************************************)
(* Entity.save under the hook wrapper                                      *)
(***************************************************************************)
SaveMethods == {"update", "insert", "upsert"}

\* the promise of entity.save() settles: back in the caller
saveSettled(s, ok, e) ==
    IF call.op = "update"
      THEN IF ok
             THEN CASE ver = "ts" -> onEntityUpdated(s)
                    [] ver = "js" -> onEntityUpdated_js(s)
                    [] ver = "cb" -> onEntityUpdated_cb(s)
             ELSE CASE ver = "ts" -> onUpdateError(s, e)
                    [] ver = "js" -> onUpdateError_js(s, e)
                    [] ver = "cb" -> onUpdateError_cb(s, e)
      ELSE IF ok THEN Resolve(s) ELSE Reject(s, e)

\* hook wrapper, after the wrapped save resolved: the post hooks run unless
\* the instance has __hooksEnabled false
wrapPostSave(s) ==
    IF s.ent.hooksEnabled /\ s.ent.hooks.post > 0
      THEN [s EXCEPT !.pc = "save.post", !.idx = 1]
      ELSE saveSettled(s, TRUE, "")

\* entity.js 89-108: onSuccess of ds.save
onSuccess(s) ==
    IF cacheOn
      THEN [Log(s, Rpc("cache.clear")) EXCEPT !.pc = "save.cache"]
      ELSE wrapPostSave(s)

\* addPostHooksTransaction that leaves the hooks of the entity enabled
addPostHooksTransaction_hooksOn(s) ==
    [s EXCEPT !.tx = hooksTransaction(@, "entity",
                                      postHooksOf("save", s.ent.hooks.post))]

\* entity.js 187-197
addPostHooksTransaction(s) ==
    [s EXCEPT !.ent.hooksEnabled = FALSE,
              !.tx = hooksTransaction(@, "entity",
                                      postHooksOf("save", s.ent.hooks.post))]

\* entity.js 47-85: the body of Entity.save(transaction, opts)
save(s) ==
    LET s1 == [s EXCEPT !.ent.hooksEnabled = TRUE,
                        !.ent.data = sanitize(@)]
    IN  IF schema.validateBeforeSave /\ ~validate(s1.ent.data)
          THEN saveSettled(s1, FALSE, "ERR_VALIDATION")
        ELSE IF call.method \notin SaveMethods
          THEN saveSettled(s1, FALSE, "ERR_METHOD")
        ELSE IF s1.tx.kind # "none"
          THEN IF s1.tx.kind = "bad"
                 THEN saveSettled(s1, FALSE, "ERR_TX_TYPE")
                 ELSE LET s2 == addPostHooksTransaction(s1)
                          op == [op |-> "save", key |-> s2.ent.key,
                                 data |-> s2.ent.data]
                      IN  wrapPostSave(
                            [Log(s2, Ev("tx.save")) EXCEPT !.tx.ops = Append(@, op)])
        ELSE [Log(s1, Rpc("ds.save")) EXCEPT !.pc = "save.ds"]

\* hook wrapper, before the wrapped save: the next pre hook, or the save
wrapPreSave(s) ==
    IF s.idx <= s.ent.hooks.pres
      THEN [s EXCEPT !.pc = "save.pre"]
      ELSE save(s)

\* new Model(data, null, null, null, key): the entity instance
newEntity(key, data) ==
    [key |-> key, data |-> buildEntityData(data), hooksEnabled |-> TRUE,
     errHooks |-> FALSE, hooks |-> registerHooksFromSchema(schema)]

\* part_006 285-299: build the entity and call its save(transaction)
saveEntity(s, key, data) ==
    wrapPreSave([s EXCEPT !.ent = newEntity(key, data), !.idx = 1])

\* part_006 266-283: the handler of transaction.get(key)
getEntity(s, rpcOk) ==
    IF ~rpcOk
      THEN onUpdateError(s, "ERR_STORE")
    ELSE IF KeyId \notin DOMAIN s.store
      THEN onUpdateError(s, "ERR_ENTITY_NOT_FOUND")
    ELSE saveEntity(s, KeyId, extend(s.store[KeyId], call.data))

\* part_003 298-327: the catch of getEntity returns the error, so that
\* saveEntity receives it as getData (no key, no data)
getEntity_js(s, rpcOk) ==
    IF ~rpcOk \/ KeyId \notin DOMAIN s.store
      THEN saveEntity(s, IncompleteKey, EmptyRec)
      ELSE saveEntity(s, KeyId, extend(s.store[KeyId], call.data))

\* part_002 212-243: getEntity rejects, onUpdateError handles it
getEntity_cb(s, rpcOk) ==
    IF ~rpcOk
      THEN onUpdateError_cb(s, "ERR_STORE")
    ELSE IF KeyId \notin DOMAIN s.store
      THEN onUpdateError_cb(s, "ERR_ENTITY_NOT_FOUND")
    ELSE saveEntity(s, KeyId, extend(s.store[KeyId], call.data))

\* part_006 260-264
getAndUpdate(s) == [Log(s, Rpc("tx.get")) EXCEPT !.pc = "update.get"]

\* part_006 222-256: Model.update up to its first await
update(s) ==
    LET s0 == [s EXCEPT !.modelHooksEnabled = TRUE]
    IN  IF call.replace
          THEN saveEntity(s0, KeyId, call.data)
        ELSE IF call.txArg = "none"
          THEN [Log([s0 EXCEPT !.internalTransaction = TRUE,
                               !.tx = TxOf("internal")], Rpc("tx.run"))
                  EXCEPT !.pc = "update.run"]
        ELSE IF call.txArg = "bad"
          THEN Reject(s0, "ERR_TX_TYPE")
        ELSE getAndUpdate(s0)

\* part_003 251-288 and part_002 162-202: no internalTransaction flag
update_js(s) ==
    LET s0 == [s EXCEPT !.modelHooksEnabled = TRUE]
    IN  IF call.txArg = "none"
          THEN [Log([s0 EXCEPT !.tx = TxOf("internal")], Rpc("tx.run"))
                  EXCEPT !.pc = "update.run"]
        ELSE IF call.txArg = "bad"
          THEN Reject(s0, "ERR_TX_TYPE")
        ELSE getAndUpdate(s0)

\* the handler of transaction.run(), part_006 246-249
onRun(s, rpcOk) ==
    IF rpcOk
      THEN getAndUpdate([s EXCEPT !.tx.state = "running"])
      ELSE onUpdateError(s, "ERR_STORE")

\* part_003 279-283 and part_002 192-196: a failed run() goes to
\* onTransactionError, which throws
onRun_js(s, rpcOk) ==
    IF rpcOk
      THEN getAndUpdate([s EXCEPT !.tx.state = "running"])
      ELSE Reject(s, "ERR_STORE")

\* part_006 311-320: the handler of transaction.commit()
onCommit(s, rpcOk) ==
    IF rpcOk
      THEN LET s1 == [s EXCEPT !.tx.state = "committed",
                               !.store = ApplyOps(@, s.tx.ops)]
           IN  IF s1.tx.post = <<>>
                 THEN onTransactionSuccess(s1)
                 ELSE [s1 EXCEPT !.pc = "update.execPost", !.idx = 1]
      ELSE onUpdateError(s, "ERR_STORE")

\* part_003 347-349 / part_002 257-259: commit().then(onTransactionSuccess);
\* a failed commit reaches onTransactionError, which throws
onCommit_js(s, rpcOk) ==
    IF rpcOk
      THEN LET s1 == [s EXCEPT !.tx.state = "committed",
                               !.store = ApplyOps(@, s.tx.ops)]
           IN  IF ver = "cb" THEN Resolve(s1) ELSE onTransactionSuccess(s1)
      ELSE Reject(s, "ERR_STORE")

\* execPostHooks whose rejection update() does not catch
execPostHooks_uncaught(s, hookOk) ==
    LET h == s.tx.post[s.idx]
        s1 == Log(s, HookEv(h.m, h.i, hookOk))
    IN  IF hookOk
          THEN IF s.idx < Len(s.tx.post)
                 THEN [s1 EXCEPT !.idx = @ + 1]
                 ELSE onTransactionSuccess(s1)
          ELSE onUpdateError(s1, "ERR_HOOK")

\* part_006 596-602 and 313-319: transaction.execPostHooks() runs the hooks
\* in a chain; update() catches its rejection and goes on
execPostHooks(s, hookOk) ==
    LET h == s.tx.post[s.idx]
        s1 == Log(s, HookEv(h.m, h.i, hookOk))
    IN  IF hookOk
          THEN IF s.idx < Len(s.tx.post)
                 THEN [s1 EXCEPT !.idx = @ + 1]
                 ELSE onTransactionSuccess(s1)
          ELSE onTransactionSuccess([s1 EXCEPT !.ent.errHooks = TRUE])

\* part_006 343-355: the handler of clearCache(key)
onCacheCleared(s, ok) ==
    IF ok THEN Resolve(s) ELSE onUpdateError(s, "ERR_CACHE")

\* part_003 366-377: the cache error reaches onTransactionError, which throws
onCacheCleared_js(s, ok) ==
    IF ok THEN Resolve(s) ELSE Reject(s, "ERR_CACHE")

\* part_006 331-333: the handler of transaction.rollback(): rethrow the
\* error kept by onUpdateError; a failed rollback rejects with its own error
onRollback(s, rpcOk) ==
    IF rpcOk
      THEN Reject([s EXCEPT !.tx.state =
                      IF @ = "committed" THEN @ ELSE "rolledback"], s.err)
      ELSE Reject(s, "ERR_ROLLBACK")

(***************************************************************************)
(* Model.delete under the hook wrapper                                     *)
(***************************************************************************)
\* hook wrapper, after the wrapped delete resolved
wrapPostDelete(s) ==
    IF s.modelHooksEnabled /\ Model_registerHooksFromSchema(schema).post > 0
      THEN [s EXCEPT !.pc = "delete.post", !.idx = 1]
      ELSE Resolve(s)

\* part_006 390-424: onDelete
onDelete(s) ==
    LET s1 == [s EXCEPT !.store = ApplyOp(@, [op |-> "delete", key |-> KeyId])]
        s2 == IF call.dl THEN Log(s1, Ev("dl.clear")) ELSE s1
    IN  IF cacheOn
          THEN [Log(s2, Rpc("cache.clear")) EXCEPT !.pc = "delete.cache"]
          ELSE wrapPostDelete(s2)

\* delete that leaves the hooks of the model enabled in a transaction
delete_hooksOn(s) ==
    LET s1 == [s EXCEPT !.modelHooksEnabled = TRUE]
    IN  IF s1.tx.kind = "bad"
          THEN Reject(s1, "ERR_TX_TYPE")
        ELSE IF s1.tx.kind # "none"
          THEN LET s2 == [s1 EXCEPT
                            !.tx = hooksTransaction(@, "model",
                                     postHooksOf("delete",
                                       Model_registerHooksFromSchema(schema).post))]
                   op == [op |-> "delete", key |-> KeyId]
               IN  wrapPostDelete(
                     [Log(s2, Ev("tx.delete")) EXCEPT !.tx.ops = Append(@, op)])
        ELSE [Log(s1, Rpc("ds.delete")) EXCEPT !.pc = "delete.ds"]

\* delete that checks the type of the transaction after using it
delete_lateCheck(s) ==
    LET s1 == Log(s, Ev("tx.delete"))
    IN  IF s.tx.kind = "bad" THEN Reject(s1, "ERR_TX_TYPE") ELSE Resolve(s1)

\* part_006 362-386: the body of Model.delete
delete(s) ==
    LET s1 == [s EXCEPT !.modelHooksEnabled = TRUE]
    IN  IF s1.tx.kind = "bad"
          THEN Reject(s1, "ERR_TX_TYPE")
        ELSE IF s1.tx.kind # "none"
          THEN LET s2 == [s1 EXCEPT
                            !.modelHooksEnabled = FALSE,
                            !.tx = hooksTransaction(@, "model",
                                     postHooksOf("delete",
                                       Model_registerHooksFromSchema(schema).post))]
                   op == [op |-> "delete", key |-> KeyId]
               IN  wrapPostDelete(
                     [Log(s2, Ev("tx.delete")) EXCEPT !.tx.ops = Append(@, op)])
        ELSE [Log(s1, Rpc("ds.delete")) EXCEPT !.pc = "delete.ds"]

\* hook wrapper, before the wrapped delete
wrapPreDelete(s) ==
    IF s.idx <= Model_registerHooksFromSchema(schema).pres
      THEN [s EXCEPT !.pc = "delete.pre"]
      ELSE delete(s)

(***************************************************************************)
(* Initial states: a schema, a store, and the call to follow               *)
(***************************************************************************)
\* hooks are registered for save or for delete
Schemas ==
    { sc \in [nPreSave : 0..MaxHooks, nPostSave : 0..MaxHooks,
              nPreDelete : 0..MaxHooks, nPostDelete : 0..MaxHooks,
              validateBeforeSave : BOOLEAN] :
        \/ sc.nPreSave + sc.nPostSave = 0
        \/ sc.nPreDelete + sc.nPostDelete = 0 }

\* data passed to update() or to the entity constructor
DataChoices == {[a |-> "y"], [a |-> "nullstr", z |-> "y"]}

TxArgs == {"none", "external", "bad"}

Calls ==
    [op : {"update"}, txArg : TxArgs, replace : BOOLEAN, dl : BOOLEAN,
     data : DataChoices, method : {"upsert"}]
    \cup
    [op : {"save"}, txArg : TxArgs, replace : {FALSE}, dl : {FALSE},
     data : DataChoices, method : {"upsert", "bogus"}]
    \cup
    [op : {"delete"}, txArg : TxArgs, replace : {FALSE}, dl : BOOLEAN,
     data : {EmptyRec}, method : {"upsert"}]

NoEnt == [key |-> IncompleteKey, data |-> EmptyRec, hooksEnabled |-> TRUE,
          errHooks |-> FALSE, hooks |-> [pres |-> 0, post |-> 0]]

EmptyStore == [k \in {} |-> EmptyRec]

DaIdle == [pc |-> "off"]
PopIdle == [pc |-> "off"]
FnIdle == [pc |-> "off"]

\* what each generation offers: part_002 has no cache, no dataloader and no
\* replace option that is followed here; delete is followed for ts and js
Offers(v, c, cache) ==
    CASE v = "ts" -> TRUE
      [] v = "js" -> c.op \in {"update", "delete"} /\ ~c.replace
      [] v = "cb" -> c.op = "update" /\ ~c.replace /\ ~c.dl /\ ~cache

Init ==
    /\ ver \in Versions
    /\ schema \in Schemas
    /\ cacheOn \in BOOLEAN
    /\ call \in Calls
    /\ Offers(ver, call, cacheOn)
    /\ pc = "idle"
    /\ idx = 1
    /\ internalTransaction = FALSE
    /\ ent = IF call.op = "save" THEN newEntity(KeyId, call.data) ELSE NoEnt
    /\ modelHooksEnabled = TRUE
    /\ tx = TxOf(call.txArg)
    /\ store \in {EmptyStore, [k \in {KeyId} |-> StoredRec]}
    /\ log = <<>>
    /\ outcome = "pending"
    /\ err = ""
    /\ da = DaIdle
    /\ pop = PopIdle
    /\ fn = FnIdle

cfgVars == <<ver, schema, cacheOn, call, da, pop, fn>>

(***************************************************************************)
(* Actions: one per handler                                                *)
(***************************************************************************)
Update ==
    /\ pc = "idle" /\ call.op = "update"
    /\ Set(IF ver = "ts" THEN update(St) ELSE update_js(St))
    /\ UNCHANGED cfgVars

Save ==
    /\ pc = "idle" /\ call.op = "save"
    /\ Set(wrapPreSave([St EXCEPT !.idx = 1]))
    /\ UNCHANGED cfgVars

Delete ==
    /\ pc = "idle" /\ call.op = "delete"
    /\ Set(wrapPreDelete([St EXCEPT !.idx = 1]))
    /\ UNCHANGED cfgVars

TxRun ==
    /\ pc = "update.run"
    /\ \E rpcOk \in BOOLEAN :
         Set(IF ver = "ts" THEN onRun(Done(St, rpcOk), rpcOk)
                           ELSE onRun_js(Done(St, rpcOk), rpcOk))
    /\ UNCHANGED cfgVars

TxGet ==
    /\ pc = "update.get"
    /\ \E rpcOk \in BOOLEAN :
         Set(CASE ver = "ts" -> getEntity(Done(St, rpcOk), rpcOk)
               [] ver = "js" -> getEntity_js(Done(St, rpcOk), rpcOk)
               [] ver = "cb" -> getEntity_cb(Done(St, rpcOk), rpcOk))
    /\ UNCHANGED cfgVars

\* a pre hook of save settles: the wrapper goes on or rejects
PreSaveHook ==
    /\ pc = "save.pre"
    /\ \E hookOk \in BOOLEAN :
         LET s1 == Log(St, HookEv("pre.save", idx, hookOk))
         IN  Set(IF hookOk
                   THEN wrapPreSave([s1 EXCEPT !.idx = @ + 1])
                   ELSE saveSettled(s1, FALSE, "ERR_HOOK"))
    /\ UNCHANGED cfgVars

DsSave ==
    /\ pc = "save.ds"
    /\ \E rpcOk \in BOOLEAN :
         Set(IF rpcOk
               THEN onSuccess([Done(St, TRUE) EXCEPT !.store =
                       ApplyOp(@, [op |-> "save", key |-> ent.key,
                                   data |-> ent.data])])
               ELSE saveSettled(Done(St, FALSE), FALSE, "ERR_STORE"))
    /\ UNCHANGED cfgVars

SaveCache ==
    /\ pc = "save.cache"
    /\ \E ok \in BOOLEAN :
         Set(IF ok THEN wrapPostSave(Done(St, TRUE))
                   ELSE saveSettled(Done(St, FALSE), FALSE, "ERR_CACHE"))
    /\ UNCHANGED cfgVars

\* a post hook of save settles: the wrapper goes on or rejects
PostSaveHook ==
    /\ pc = "save.post"
    /\ \E hookOk \in BOOLEAN :
         LET s1 == Log(St, HookEv("post.save", idx, hookOk))
         IN  Set(IF ~hookOk THEN saveSettled(s1, FALSE, "ERR_HOOK")
                 ELSE IF idx < ent.hooks.post THEN [s1 EXCEPT !.idx = @ + 1]
                 ELSE saveSettled(s1, TRUE, ""))
    /\ UNCHANGED cfgVars

TxCommit ==
    /\ pc = "update.commit"
    /\ \E rpcOk \in BOOLEAN :
         Set(IF ver = "ts" THEN onCommit(Done(St, rpcOk), rpcOk)
                           ELSE onCommit_js(Done(St, rpcOk), rpcOk))
    /\ UNCHANGED cfgVars

ExecPostHooks ==
    /\ pc = "update.execPost"
    /\ \E hookOk \in BOOLEAN : Set(execPostHooks(St, hookOk))
    /\ UNCHANGED cfgVars

UpdateCache ==
    /\ pc = "update.cache"
    /\ \E ok \in BOOLEAN :
         Set(IF ver = "ts" THEN onCacheCleared(Done(St, ok), ok)
                           ELSE onCacheCleared_js(Done(St, ok), ok))
    /\ UNCHANGED cfgVars

TxRollback ==
    /\ pc = "update.rollback"
    /\ \E rpcOk \in BOOLEAN : Set(onRollback(Done(St, rpcOk), rpcOk))
    /\ UNCHANGED cfgVars

PreDeleteHook ==
    /\ pc = "delete.pre"
    /\ \E hookOk \in BOOLEAN :
         LET s1 == Log(St, HookEv("pre.delete", idx, hookOk))
         IN  Set(IF hookOk
                   THEN wrapPreDelete([s1 EXCEPT !.idx = @ + 1])
                   ELSE Reject(s1, "ERR_HOOK"))
    /\ UNCHANGED cfgVars

DsDelete ==
    /\ pc = "delete.ds"
    /\ \E rpcOk \in BOOLEAN :
         Set(IF rpcOk THEN onDelete(Done(St, TRUE))
                      ELSE Reject(Done(St, FALSE), "ERR_STORE"))
    /\ UNCHANGED cfgVars

DeleteCache ==
    /\ pc = "delete.cache"
    /\ \E ok \in BOOLEAN :
         Set(IF ok THEN wrapPostDelete(Done(St, TRUE))
                   ELSE Reject(Done(St, FALSE), "ERR_CACHE"))
    /\ UNCHANGED cfgVars

PostDeleteHook ==
    /\ pc = "delete.post"
    /\ \E hookOk \in BOOLEAN :
         LET s1 == Log(St, HookEv("post.delete", idx, hookOk))
         IN  Set(IF ~hookOk THEN Reject(s1, "ERR_HOOK")
                 ELSE IF idx < Model_registerHooksFromSchema(schema).post
                   THEN [s1 EXCEPT !.idx = @ + 1]
                 ELSE Resolve(s1))
    /\ UNCHANGED cfgVars

\* the owner of an external transaction commits it after the call
CallerCommit ==
    /\ pc = "done" /\ tx.kind = "external" /\ tx.state = "running"
    /\ \E rpcOk \in BOOLEAN :
         LET s1 == Log(St, [Ev("caller.commit") EXCEPT !.ok = rpcOk])
         IN  Set(IF rpcOk
                   THEN [s1 EXCEPT !.tx.state = "committed",
                                   !.store = ApplyOps(@, tx.ops),
                                   !.idx = 1]
                   ELSE [s1 EXCEPT !.tx.state = "failed"])
    /\ UNCHANGED cfgVars

\* ... and replays the post hooks: transaction.execPostHooks()
CallerExecPostHooks ==
    /\ pc = "done" /\ tx.kind = "external" /\ tx.state = "committed"
    /\ "caller.commit" \in {log[j].e : j \in 1..Len(log)}
    /\ idx <= Len(tx.post)
    /\ \E hookOk \in BOOLEAN :
         LET h == tx.post[idx]
             s1 == Log(St, HookEv(h.m, h.i, hookOk))
         IN  Set([s1 EXCEPT !.idx = IF hookOk THEN @ + 1 ELSE Len(tx.post) + 1])
    /\ UNCHANGED cfgVars

Next ==
    \/ Update \/ Save \/ Delete
    \/ TxRun \/ TxGet \/ PreSaveHook \/ DsSave \/ SaveCache \/ PostSaveHook
    \/ TxCommit \/ ExecPostHooks \/ UpdateCache \/ TxRollback
    \/ PreDeleteHook \/ DsDelete \/ DeleteCache \/ PostDeleteHook
    \/ CallerCommit \/ CallerExecPostHooks

Spec == Init /\ [][Next]_vars

(***************************************************************************)
(* Model.deleteAll (part_006 427-520)                                      *)
(*                                                                         *)
(* The entities of the kind are numbered in query order; those still in    *)
(* the store are da.lo .. da.n. A list of keys is an interval from .. to.  *)
(***************************************************************************)
maxEntitiesPerBatch == 500
limitDataPerQuery == 100000

\* numbers of entities of the kind in the store when deleteAll is called
StoreSizes == {0, 1, 499, 500, 501, 1200, 100000, 100001}
\* ... when a pre "delete" hook is registered (one delete call per entity)
ChainSizes == {0, 1, 2, 501}

Min(a, b) == IF a < b THEN a ELSE b
\* Math.ceil(a / b)
Ceil(a, b) == (a + b - 1) \div b

\* _this.__pres has the property 'delete': the hook library sets up the pre
\* and post lists of a method when the first hook of the method, pre or
\* post, is registered
hasPreDelete ==
    \/ Model_registerHooksFromSchema(schema).pres > 0
    \/ Model_registerHooksFromSchema(schema).post > 0

DaReject(d, e) == [d EXCEPT !.pc = "done", !.outcome = "rejected", !.err = e]

\* part_006 447-458 and 511: createQueryWithLimit().run()
createQueryWithLimit(d) == [d EXCEPT !.pc = "da.query", !.rounds = @ + 1]

\* part_006 362-386 called by deleteAll: Model.delete(null, ..., key, options)
\* under the hook wrapper, up to its first await
delete_keys(d, from, to, clearQueries) ==
    LET d1 == [d EXCEPT !.cur = [from |-> from, to |-> to,
                                 clearQueries |-> clearQueries]]
    IN  IF Model_registerHooksFromSchema(schema).pres > 0
          THEN [d1 EXCEPT !.pc = "da.pre"]
          ELSE [d1 EXCEPT !.pc = "da.delete", !.calls = Append(@, d1.cur)]

\* deleteEntities that passes the keys of the slice to one delete call
\* whatever the hooks
deleteEntities_alwaysBatch(d) ==
    LET indexStart == d.currentBatch * maxEntitiesPerBatch
        indexEnd == indexStart + maxEntitiesPerBatch
        first == d.entities.from + indexStart
        last == Min(d.entities.from + indexEnd - 1, d.entities.to)
    IN  delete_keys(d, first, last, d.currentBatch = 0)

\* deleteEntities with a slice one entity too long
deleteEntities_offByOne(d) ==
    LET indexStart == d.currentBatch * maxEntitiesPerBatch
        indexEnd == indexStart + maxEntitiesPerBatch + 1
        first == d.entities.from + indexStart
        last == Min(d.entities.from + indexEnd - 1, d.entities.to)
    IN  delete_keys(d, first, last, d.currentBatch = 0)

\* part_006 483-499: deleteEntities(currentBatch). entities.slice(indexStart,
\* indexEnd) is first .. last; with a pre "delete" hook the entities of the
\* slice are deleted one by one, from d.at on
deleteEntities(d) ==
    LET indexStart == d.currentBatch * maxEntitiesPerBatch
        indexEnd == indexStart + maxEntitiesPerBatch
        first == d.entities.from + indexStart
        last == Min(d.entities.from + indexEnd - 1, d.entities.to)
    IN  IF hasPreDelete
          THEN delete_keys([d EXCEPT !.at = first, !.last = last],
                           first, first, TRUE)
          ELSE delete_keys(d, first, last, d.currentBatch = 0)

\* onEntitiesDeleted that reports success after the last batch
onEntitiesDeleted_noQuery(d) ==
    LET d1 == [d EXCEPT !.currentBatch = @ + 1]
    IN  IF d1.currentBatch < d1.totalBatches
          THEN [d1 EXCEPT !.pc = "da.timer"]
          ELSE [d1 EXCEPT !.pc = "done", !.outcome = "resolved"]

\* onEntitiesDeleted that sends no query after the last batch and does not
\* settle the call
onEntitiesDeleted_noNext(d) ==
    LET d1 == [d EXCEPT !.currentBatch = @ + 1]
    IN  IF d1.currentBatch < d1.totalBatches
          THEN [d1 EXCEPT !.pc = "da.timer"]
          ELSE [d1 EXCEPT !.pc = "da.wait"]

\* part_006 501-514: onEntitiesDeleted
onEntitiesDeleted(d) ==
    LET d1 == [d EXCEPT !.currentBatch = @ + 1]
    IN  IF d1.currentBatch < d1.totalBatches
          THEN [d1 EXCEPT !.pc = "da.timer"]
          ELSE createQueryWithLimit(d1)

\* part_006 517-519: the next link of the chain of single deletes, or
\* onEntitiesDeleted at its end
chainPromise(d) ==
    IF hasPreDelete /\ d.at < d.last
      THEN delete_keys([d EXCEPT !.at = @ + 1], d.at + 1, d.at + 1, TRUE)
      ELSE onEntitiesDeleted(d)

\* part_006 460-481: onEntities; the query answers with the first
\* limitDataPerQuery keys of the kind
onEntities(d) ==
    LET found == [from |-> d.lo,
                  to |-> Min(d.lo + limitDataPerQuery - 1, d.n)]
        length == found.to - found.from + 1
    IN  IF length = 0
          THEN [d EXCEPT !.entities = found, !.pc = "done",
                         !.outcome = "resolved"]
          ELSE deleteEntities([d EXCEPT !.entities = found,
                                        !.currentBatch = 0,
                                        !.totalBatches =
                                            Ceil(length, maxEntitiesPerBatch)])

\* hook wrapper, after Model.delete resolved
wrapPostDelete_keys(d) ==
    IF Model_registerHooksFromSchema(schema).post > 0
      THEN [d EXCEPT !.pc = "da.post"]
      ELSE chainPromise(d)

\* part_006 390-421: onDelete, and clearCache (684-705) with clearQueries
onDelete_keys(d) ==
    LET d1 == [d EXCEPT !.lo = d.cur.to + 1]
    IN  IF cacheOn
          THEN [d1 EXCEPT !.pc = "da.cache",
                          !.clearCount = IF d.cur.clearQueries THEN @ + 1 ELSE @]
          ELSE wrapPostDelete_keys(d1)

DaInit ==
    [pc |-> "idle", lo |-> 1, n |-> 0, entities |-> [from |-> 1, to |-> 0],
     currentBatch |-> 0, totalBatches |-> 0, at |-> 0, last |-> 0,
     cur |-> [from |-> 1, to |-> 0, clearQueries |-> FALSE], calls |-> <<>>,
     rounds |-> 0, clearCount |-> 0, preRuns |-> 0, postRuns |-> 0,
     outcome |-> "pending", err |-> ""]

InitDeleteAll ==
    /\ ver = "ts"
    /\ schema \in {sc \in Schemas : /\ sc.nPreSave = 0 /\ sc.nPostSave = 0
                                    /\ sc.validateBeforeSave}
    /\ cacheOn \in BOOLEAN
    /\ call = [op |-> "deleteAll", txArg |-> "none", replace |-> FALSE,
               dl |-> FALSE, data |-> EmptyRec, method |-> "upsert"]
    /\ pc = "idle"
    /\ idx = 1
    /\ internalTransaction = FALSE
    /\ ent = NoEnt
    /\ modelHooksEnabled = TRUE
    /\ tx = NoTx
    /\ store = EmptyStore
    /\ log = <<>>
    /\ outcome = "pending"
    /\ err = ""
    /\ \E n \in IF hasPreDelete THEN ChainSizes ELSE StoreSizes :
          da = [DaInit EXCEPT !.n = n]
    /\ pop = PopIdle
    /\ fn = FnIdle

callVars == <<ver, schema, cacheOn, call, pc, idx, internalTransaction, ent,
              modelHooksEnabled, tx, store, log, outcome, err, pop, fn>>

\* Model.deleteAll(): the first query is sent
DeleteAll ==
    /\ da.pc = "idle"
    /\ da' = createQueryWithLimit(da)
    /\ UNCHANGED callVars

\* the query answers, or fails
DaQuery ==
    /\ da.pc = "da.query"
    /\ \E rpcOk \in BOOLEAN :
         da' = IF rpcOk THEN onEntities(da) ELSE DaReject(da, "ERR_STORE")
    /\ UNCHANGED callVars

\* the pre "delete" hooks of one Model.delete call settle
DaPreHooks ==
    /\ da.pc = "da.pre"
    /\ \E hookOk \in BOOLEAN :
         da' = IF hookOk
                 THEN [da EXCEPT !.pc = "da.delete", !.preRuns = @ + 1,
                                 !.calls = Append(@, da.cur)]
                 ELSE DaReject([da EXCEPT !.preRuns = @ + 1], "ERR_HOOK")
    /\ UNCHANGED callVars

\* ds.delete(keys) answers, or fails
DaDsDelete ==
    /\ da.pc = "da.delete"
    /\ \E rpcOk \in BOOLEAN :
         da' = IF rpcOk THEN onDelete_keys(da) ELSE DaReject(da, "ERR_STORE")
    /\ UNCHANGED callVars

\* clearCache(keys, clearQueries) answers, or fails
DaCache ==
    /\ da.pc = "da.cache"
    /\ \E ok \in BOOLEAN :
         da' = IF ok THEN wrapPostDelete_keys(da) ELSE DaReject(da, "ERR_CACHE")
    /\ UNCHANGED callVars

\* the post "delete" hooks of one Model.delete call settle
DaPostHooks ==
    /\ da.pc = "da.post"
    /\ \E hookOk \in BOOLEAN :
         LET d1 == [da EXCEPT !.postRuns = @ + 1]
         IN  da' = IF hookOk THEN chainPromise(d1) ELSE DaReject(d1, "ERR_HOOK")
    /\ UNCHANGED callVars

\* the timer between two batches fires
DaTimer ==
    /\ da.pc = "da.timer"
    /\ da' = deleteEntities(da)
    /\ UNCHANGED callVars

NextDeleteAll ==
    \/ DeleteAll \/ DaQuery \/ DaPreHooks \/ DaDsDelete \/ DaCache
    \/ DaPostHooks \/ DaTimer

SpecDeleteAll == InitDeleteAll /\ [][NextDeleteAll]_vars

\* every query, store delete, cache invalidation, hook and timer of the
\* call is answered in the end
SpecDeleteAllLive == SpecDeleteAll /\ WF_vars(NextDeleteAll)

(***************************************************************************)
(* Model.deleteAll of the callback generation (part_002 444-526)           *)
(*                                                                         *)
(* Here the entities of the kind are the numbers 1 .. n, da.live those     *)
(* still in the store. A call of Model.delete is [keys, r, b]: its keys,   *)
(* and the query round and batch that started it. da.pre holds the calls   *)
(* whose pre hooks run, da.flying those whose ds.delete is in flight.      *)
(***************************************************************************)
MaxKeys == 2        \* entities of the kind in the store
MaxRounds == 2      \* queries one deleteAll call may send

\* the entities of S in query order
SortedSeq(S) ==
    IF S = {} THEN <<>>
    ELSE LET top == CHOOSE x \in S : \A y \in S : y <= x
         IN  SelectSeq([i \in 1..top |-> i], LAMBDA x : x \in S)

EaResolve(d) == [d EXCEPT !.pc = "done", !.outcome = "resolved"]

\* part_002 495-497: onError
onError_cb(d) == [d EXCEPT !.pc = "done", !.outcome = "rejected"]

\* part_002 483-493: deleteEntities. chainPromise (523-525) calls
\* _this.delete(...) while the chain is built and hands its promise to
\* then(), which ignores it: every delete of the slice is started at once
\* and the chain resolves without waiting for any
deleteEntities_cb(d) ==
    LET indexStart == d.currentBatch * maxEntitiesPerBatch
        indexEnd == indexStart + maxEntitiesPerBatch
        entitiesToDelete ==
            SubSeq(d.entities, indexStart + 1, Min(indexEnd, Len(d.entities)))
        slice == {entitiesToDelete[j] : j \in 1..Len(entitiesToDelete)}
    IN  IF hasPreDelete
          THEN [d EXCEPT !.pc = "ea.chain",
                         !.pre = @ \cup {[keys |-> {k}, r |-> d.rounds,
                                          b |-> d.currentBatch] : k \in slice}]
          ELSE [d EXCEPT !.pc = "ea.delete",
                         !.issued = @ + 1,
                         !.flying = @ \cup {[keys |-> slice, r |-> d.rounds,
                                             b |-> d.currentBatch]}]

\* part_002 462-481: onEntities
onEntities_cb(d) ==
    LET found == SortedSeq(d.live)
    IN  IF Len(found) = 0
          THEN EaResolve([d EXCEPT !.entities = found])
          ELSE deleteEntities_cb([d EXCEPT !.entities = found,
                                           !.currentBatch = 0,
                                           !.totalBatches =
                                             Ceil(Len(found), maxEntitiesPerBatch)])

\* part_002 499-508: onEntitiesDeleted
onEntitiesDeleted_cb(d) ==
    LET d1 == [d EXCEPT !.currentBatch = @ + 1]
    IN  IF d1.currentBatch < d1.totalBatches
          THEN [d1 EXCEPT !.pc = "ea.timer"]
          ELSE [d1 EXCEPT !.pc = "ea.query", !.rounds = @ + 1]

EaInit ==
    [pc |-> "idle", live |-> {}, entities |-> <<>>, currentBatch |-> 0,
     totalBatches |-> 0, pre |-> {}, flying |-> {}, rounds |-> 0,
     issued |-> 0, outcome |-> "pending"]

InitDeleteAllEager ==
    /\ ver = "cb"
    /\ schema \in {sc \in Schemas : /\ sc.nPreSave = 0 /\ sc.nPostSave = 0
                                    /\ sc.validateBeforeSave}
    /\ cacheOn = FALSE
    /\ call = [op |-> "deleteAll", txArg |-> "none", replace |-> FALSE,
               dl |-> FALSE, data |-> EmptyRec, method |-> "upsert"]
    /\ pc = "idle"
    /\ idx = 1
    /\ internalTransaction = FALSE
    /\ ent = NoEnt
    /\ modelHooksEnabled = TRUE
    /\ tx = NoTx
    /\ store = EmptyStore
    /\ log = <<>>
    /\ outcome = "pending"
    /\ err = ""
    /\ \E n \in IF hasPreDelete THEN 0..MaxKeys
                  ELSE (0..MaxKeys) \cup {maxEntitiesPerBatch + 1} :
          da = [EaInit EXCEPT !.live = 1..n]
    /\ pop = PopIdle
    /\ fn = FnIdle

\* Model.deleteAll(): the first query is sent (part_002 460)
EaDeleteAll ==
    /\ da.pc = "idle"
    /\ da' = [da EXCEPT !.pc = "ea.query", !.rounds = 1]
    /\ UNCHANGED callVars

\* the query answers with the entities then in the store, or fails
EaQuery ==
    /\ da.pc = "ea.query"
    /\ \E rpcOk \in BOOLEAN :
         da' = IF rpcOk THEN onEntities_cb(da) ELSE onError_cb(da)
    /\ UNCHANGED callVars

\* the chain built by reduce resolves: onEntitiesDeleted; the next query is
\* sent while MaxRounds allows
EaChain ==
    /\ da.pc = "ea.chain"
    /\ da.currentBatch + 1 < da.totalBatches \/ da.rounds < MaxRounds
    /\ da' = onEntitiesDeleted_cb(da)
    /\ UNCHANGED callVars

\* the pre "delete" hooks of a started delete, if any, settle: ds.delete(key)
\* is sent, or the call ends with the error of the hook
EaPreHooks ==
    /\ \E c \in da.pre :
       \E hookOk \in IF Model_registerHooksFromSchema(schema).pres > 0
                       THEN BOOLEAN ELSE {TRUE} :
         da' = IF hookOk
                 THEN [da EXCEPT !.pre = @ \ {c}, !.flying = @ \cup {c},
                                 !.issued = @ + 1]
                 ELSE [da EXCEPT !.pre = @ \ {c}]
    /\ UNCHANGED callVars

\* the ds.delete of a delete started by the chain answers, or fails; nobody
\* waits for its promise
EaDsDelete ==
    /\ da.pc # "ea.delete"
    /\ \E c \in da.flying : \E rpcOk \in BOOLEAN :
         da' = [da EXCEPT !.flying = @ \ {c},
                          !.live = IF rpcOk THEN @ \ c.keys ELSE @]
    /\ UNCHANGED callVars

\* the ds.delete(keys) of a batch answers, or fails (part_002 493)
EaBatchDelete ==
    /\ da.pc = "ea.delete"
    /\ \E c \in da.flying : \E rpcOk \in BOOLEAN :
         LET d1 == [da EXCEPT !.flying = @ \ {c},
                              !.live = IF rpcOk THEN @ \ c.keys ELSE @]
         IN  /\ rpcOk => (d1.currentBatch + 1 < d1.totalBatches
                             \/ d1.rounds < MaxRounds)
             /\ da' = IF rpcOk THEN onEntitiesDeleted_cb(d1) ELSE onError_cb(d1)
    /\ UNCHANGED callVars

\* the timer between two batches fires (part_002 504)
EaTimer ==
    /\ da.pc = "ea.timer"
    /\ da' = deleteEntities_cb(da)
    /\ UNCHANGED callVars

NextDeleteAllEager ==
    \/ EaDeleteAll \/ EaQuery \/ EaChain \/ EaPreHooks \/ EaDsDelete
    \/ EaBatchDelete \/ EaTimer

SpecDeleteAllEager == InitDeleteAllEager /\ [][NextDeleteAllEager]_vars

(***************************************************************************)
(* Model.populate() (part_006 707-842)                                     *)
(*                                                                         *)
(* A value of a record is a tag, an identifier and its own properties:     *)
(* undefined, null, a Datastore Key, a string, or an object.  The root     *)
(* records are objects; a populated reference is an object whose id is     *)
(* the identifier of the referenced entity.                                *)
(***************************************************************************)
MaxRoots == 2

Val(t, k, f) == [t |-> t, k |-> k, f |-> f]
NoProps == <<>>
Undef == Val("undefined", "", NoProps)
Null == Val("null", "", NoProps)
Key(k) == Val("key", k, NoProps)
Str(s) == Val("string", s, NoProps)
Bool(b) == Val("boolean", b, NoProps)
Obj(id, f) == Val("object", id, f)

\* !value
Falsy(v) == v.t \in {"undefined", "null"} \/ v = Bool("false")
\* lodash isObject(value)
isObject(v) == v.t \in {"object", "key"}
\* as isKey, but every value passes
isKey_any(v) == TRUE

\* ds.isKey(value)
isKey(v) == v.t = "key"

\* lodash.get(object, path)
RECURSIVE get(_, _)
get(o, path) ==
    IF path = <<>> THEN o
    ELSE IF isObject(o) /\ Head(path) \in DOMAIN o.f
         THEN get(o.f[Head(path)], Tail(path))
         ELSE Undef

\* lodash.set(object, path, value): a portion of the path that is not an
\* object is replaced by a new object
RECURSIVE set(_, _, _)
set(o, path, v) ==
    IF path = <<>> THEN v
    ELSE LET nested == IF isObject(o) THEN o ELSE Obj("", NoProps)
             objValue == IF Head(path) \in DOMAIN nested.f
                         THEN nested.f[Head(path)] ELSE Undef
         IN  [nested EXCEPT
                !.f = (Head(path) :> set(objValue, Tail(path), v)) @@ @]

\* the entities a reference can point at, and what the store holds for them;
\* KEY stands for the property ds.KEY (a Symbol) that carries the key
Address1 == "Address/1"
Address2 == "Address/2"
AddressBook1 == "AddressBook/1"
TargetData(k) ==
    CASE k = Address1 -> [city |-> Str("Paris"), secret |-> Str("code"),
                          verified |-> Bool("false"),
                          addressBook |-> Key(AddressBook1),
                          KEY |-> Key(Address1)]
      [] k = Address2 -> [city |-> Str("Rome"), addressBook |-> Str("none"),
                          KEY |-> Key(Address2)]
      [] OTHER -> [label |-> Str("friends"), KEY |-> Key(AddressBook1)]

\* the paths the schemas of the referenced kinds declare with read: false
ReadFalse == {"secret"}

\* entity.plain() of the embedded entity: fromDatastore(entityData) without
\* readAll leaves out the properties declared with read: false
plain(data) == [k \in DOMAIN data \ ReadFalse |-> data[k]]

Ref(path, select) == [path |-> path, select |-> select]
Level0 ==
    {<<>>, <<Ref(<<"address">>, <<>>)>>, <<Ref(<<"address">>, <<"*">>)>>,
     <<Ref(<<"address">>, <<"city", "verified", "zip">>)>>,
     <<Ref(<<"address">>, <<>>), Ref(<<"other">>, <<>>)>>}
Level1 == <<Ref(<<"address", "addressBook">>, <<>>)>>
RefsChoices ==
    {<<>>} \cup {<<l0>> : l0 \in Level0 \ {<<>>}}
           \cup {<<l0, Level1>> : l0 \in Level0}

\* the root records: the address field is absent, null, a key or a string
AddressValues == {Undef, Null, Key(Address1), Key(Address2), Str("not-a-key")}
Records ==
    {Obj("", NoProps)}
      \cup {Obj("", [address |-> a]) : a \in AddressValues \ {Undef}}
      \cup {Obj("", [address |-> Key(Address1), other |-> Key(Address1)])}

RootChoices == UNION {[1..n -> Records] : n \in 1..MaxRoots}

\* options.transaction / options.dataloader
Modes == {"dataloader", "callerDataloader", "notDataLoader",
          "transaction", "notTransaction"}

\* getPopulateMetaForEntity (part_006 710-742); thrown: the path held a
\* value that is not a key
RECURSIVE metaFrom(_, _, _)
metaFrom(m, entityRefs, i) ==
    IF i > Len(entityRefs) \/ m.thrown THEN m
    ELSE LET ref == entityRefs[i]
             key == get(m.entityData, ref.path)
         IN  IF Falsy(key)
             THEN metaFrom([m EXCEPT !.entityData = set(@, ref.path, Null)],
                           entityRefs, i + 1)
             ELSE IF ~isKey(key) THEN [m EXCEPT !.thrown = TRUE]
             ELSE metaFrom([m EXCEPT
                              !.mapKeyToPropAndSelect = (key.k :> ref) @@ @,
                              !.keysToFetch = Append(@, key.k)],
                           entityRefs, i + 1)

getPopulateMetaForEntity(entityData, entityRefs) ==
    metaFrom([entityData |-> entityData, keysToFetch |-> <<>>,
              mapKeyToPropAndSelect |-> <<>>, thrown |-> FALSE],
             entityRefs, 1)

Range(seq) == {seq[j] : j \in 1..Len(seq)}

\* the projected json (part_006 792-804)
json(select, data) ==
    IF Len(select) > 0 /\ "*" \notin Range(select)
    THEN [field \in Range(select) |->
            IF field \in DOMAIN data /\ ~Falsy(data[field])
            THEN data[field] ELSE Null]
    ELSE plain(data)

\* mergeRefEntitiesToEntityData (part_006 774-811); found is the identifier
\* of the entity the i-th item of the response holds, "" for a null item.
\* topLevel is FALSE when the function works on a copy that is never
\* assigned to the entity: the copy shares its nested objects with the
\* entity's record, its own top-level properties are lost.
mergeRefEntitiesToEntityData(entityData, m, found, i, topLevel) ==
    LET key == m.keysToFetch[i]
        ref == m.mapKeyToPropAndSelect[key]
    IN  IF found = ""
        THEN IF topLevel \/ Len(ref.path) > 1
             THEN set(entityData, ref.path, Null) ELSE entityData
        ELSE set(entityData, ref.path,
                 Obj(key, json(ref.select, TargetData(found))))

RECURSIVE mergeFrom(_, _, _, _, _)
mergeFrom(entityData, m, items, i, topLevel) ==
    IF i > Len(items) THEN entityData
    ELSE mergeFrom(mergeRefEntitiesToEntityData(entityData, m, items[i], i,
                                                topLevel),
                   m, items, i + 1, topLevel)

\* onKeysFetched (part_006 763-815): entity.entityData is replaced by the
\* copy only when an item with data is merged (808-810)
onKeysFetched(response, m, isEntityClass) ==
    IF ~response.fetched THEN m.entityData
    ELSE mergeFrom(m.entityData, m, response.items, 1,
                   ~isEntityClass \/ \E i \in 1..Len(response.items) :
                                        response.items[i] # "")

\* what fetchEntityByKey resolves with (part_006 192-209): transaction.get
\* returns the entities the store has found, dataloader.loadMany one item
\* per key, null for an entity that does not exist
response(keysToFetch, mode, targets) ==
    IF keysToFetch = <<>> THEN [fetched |-> FALSE, items |-> <<>>]
    ELSE IF mode = "transaction"
    THEN [fetched |-> TRUE,
          items |-> SelectSeq(keysToFetch, LAMBDA k : k \in targets)]
    ELSE [fetched |-> TRUE,
          items |-> [j \in 1..Len(keysToFetch) |->
                        IF keysToFetch[j] \in targets
                        THEN keysToFetch[j] ELSE ""]]

\* the DataLoader created by createDataLoader: one store get for the keys
\* requested in one tick that it has not loaded yet, cached by key
batchLoadFn(loaded, keys) == keys \ loaded

PopEv(e, level, keys) == [e |-> e, level |-> level, keys |-> keys]

PopSettle(p, outcome_, err_) ==
    [p EXCEPT !.pc = "done", !.outcome = outcome_, !.err = err_]

\* fetchRefsEntitiesRefsAtLevel up to its Promise.all (part_006 757-821)
fetchRefsEntitiesRefsAtLevel(p) ==
    LET entityRefs == p.refs[p.level]
        n == Len(p.entities)
        meta == [i \in 1..n |->
                    getPopulateMetaForEntity(p.entities[i], entityRefs)]
        thrower == {i \in 1..n : meta[i].thrown}
        first == IF thrower = {} THEN n
                 ELSE CHOOSE i \in thrower : \A j \in thrower : i <= j
        entities == [i \in 1..n |-> IF i <= first THEN meta[i].entityData
                                    ELSE p.entities[i]]
        withKeys == {i \in 1..n : meta[i].keysToFetch # <<>>}
        keys == UNION {Range(meta[i].keysToFetch) : i \in 1..n}
        looked == [p EXCEPT !.entities = entities, !.meta = meta,
                     !.trace = Append(@, PopEv("lookup", p.level, keys))]
    IN  IF thrower # {} THEN PopSettle(looked, "rejected", "ERR_NOT_A_KEY")
        ELSE IF withKeys = {} THEN [looked EXCEPT !.pc = "fetching"]
        ELSE IF p.mode \in {"notTransaction", "notDataLoader"}
        THEN PopSettle(looked, "rejected", "ERR_TYPE")
        ELSE IF p.mode = "transaction"
        THEN [looked EXCEPT
                !.pc = "fetching",
                !.pending = {[via |-> "transaction.get", e |-> i,
                              keys |-> Range(meta[i].keysToFetch)]
                             : i \in withKeys},
                !.trace = @ \o [j \in 1..Cardinality(withKeys) |->
                                  PopEv("fetch", p.level,
                                        Range(meta[SortedSeq(withKeys)[j]]
                                                .keysToFetch))]]
        ELSE IF batchLoadFn(p.loaded, keys) = {}
        THEN [looked EXCEPT !.pc = "fetching"]
        ELSE [looked EXCEPT
                !.pc = "fetching",
                !.pending = {[via |-> "ds.get", e |-> 0,
                              keys |-> batchLoadFn(p.loaded, keys)]},
                !.trace = Append(@, PopEv("fetch", p.level,
                                          batchLoadFn(p.loaded, keys)))]

\* a fetch has succeeded
onFetched(p, f) ==
    [p EXCEPT !.pending = @ \ {f},
              !.loaded = IF f.via = "ds.get" THEN @ \cup f.keys ELSE @,
              !.trace = Append(@, PopEv("fetched", p.level, f.keys))]

\* the .then() of Promise.all (part_006 823-826) and the next step of the
\* chain of levels (part_006 831-839)
onAllFetched(p) ==
    LET n == Len(p.entities)
        entities == [i \in 1..n |->
                        onKeysFetched(response(p.meta[i].keysToFetch, p.mode,
                                               p.targets),
                                      p.meta[i], p.isEntityClass)]
        merged == [p EXCEPT !.entities = entities,
                     !.trace = Append(@, PopEv("merge", p.level, {}))]
    IN  IF p.level = Len(p.refs) THEN PopSettle(merged, "resolved", "")
        ELSE [merged EXCEPT !.pc = "level", !.level = @ + 1]

PopInit(refs, mode, loaded, isEntityClass, entities, targets) ==
    [pc |-> "idle", refs |-> refs, mode |-> mode, loaded |-> loaded,
     isEntityClass |-> isEntityClass, entities |-> entities,
     before |-> entities, targets |-> targets, level |-> 0, meta |-> <<>>,
     pending |-> {}, trace |-> <<>>, outcome |-> "pending", err |-> "",
     written |-> <<>>]

InitPopulate ==
    /\ ver = "ts"
    /\ schema \in [nPreSave : {0}, nPostSave : {0}, nPreDelete : {0},
                    nPostDelete : {0}, validateBeforeSave : BOOLEAN]
    /\ cacheOn = FALSE
    /\ call = [op |-> "populate", txArg |-> "none", replace |-> FALSE,
               dl |-> FALSE, data |-> EmptyRec, method |-> "upsert"]
    /\ pc = "idle"
    /\ idx = 1
    /\ internalTransaction = FALSE
    /\ ent = NoEnt
    /\ modelHooksEnabled = TRUE
    /\ tx = NoTx
    /\ store = EmptyStore
    /\ log = <<>>
    /\ outcome = "pending"
    /\ err = ""
    /\ da = DaIdle
    /\ fn = FnIdle
    /\ \E refs \in RefsChoices, mode \in Modes, isEntityClass \in BOOLEAN,
          entities \in RootChoices,
          targets \in {{Address2} \cup S : S \in SUBSET {Address1, AddressBook1}} :
          \E loaded \in IF mode = "callerDataloader"
                        THEN {{}, {Address1} \cap targets} ELSE {{}} :
             /\ pop = PopInit(refs, mode, loaded, isEntityClass, entities,
                              targets)
             \* the option matters to save(), a method of entity instances
             /\ isEntityClass \/ schema.validateBeforeSave

popVars == <<ver, schema, cacheOn, call, pc, idx, internalTransaction, ent,
             modelHooksEnabled, tx, store, log, outcome, err, da, fn>>

\* Model.populate(refs, options)(entities) (part_006 744-748, 829-835)
Populate ==
    /\ pop.pc = "idle"
    /\ pop' = IF pop.refs = <<>> THEN PopSettle(pop, "resolved", "")
              ELSE [pop EXCEPT !.pc = "level", !.level = 1]
    /\ UNCHANGED popVars

\* the references of one level are looked up and their keys requested
PopLevel ==
    /\ pop.pc = "level"
    /\ pop' = fetchRefsEntitiesRefsAtLevel(pop)
    /\ UNCHANGED popVars

\* the store answers a fetch, or fails: Promise.all rejects at once
PopFetched ==
    /\ pop.pc = "fetching"
    /\ \E f \in pop.pending, ok \in BOOLEAN :
          pop' = IF ok THEN onFetched(pop, f)
                 ELSE PopSettle(pop, "rejected", "ERR_STORE")
    /\ UNCHANGED popVars

\* as settled, but Promise.race instead of Promise.all
settled_race(p) == TRUE

\* Promise.all(promises) is fulfilled (part_006 823)
settled(p) == p.pending = {}

\* every fetch of the level has been answered
PopMerge ==
    /\ pop.pc = "fetching"
    /\ settled(pop)
    /\ pop' = onAllFetched(pop)
    /\ UNCHANGED popVars

\* a schema for Model.sanitize: the declared paths with their write flag
\* and whether they are of type entityKey, and the explicitOnly option
Path(write, ref) == [write |-> write, ref |-> ref]
RootSchema ==
    [paths |-> [address |-> Path(TRUE, TRUE), other |-> Path(TRUE, TRUE)],
     explicitOnly |-> FALSE, isJoi |-> FALSE, allowUnknown |-> TRUE,
     stripUnknown |-> FALSE]

\* as isSchemaExplicitOnly, but no schema is explicit
isSchemaExplicitOnly_never(sch) == FALSE

\* isSchemaExplicitOnly (part_006 650)
isSchemaExplicitOnly(sch) ==
    IF sch.isJoi THEN sch.stripUnknown ELSE sch.explicitOnly

\* Model.sanitize, a populated entity is replaced by its key
\* (part_006 667-672)
refToKey(v) ==
    IF v.t = "object" /\ "KEY" \in DOMAIN v.f THEN v.f.KEY ELSE v

\* Model.sanitize(data, options) of a schema that is not a Joi schema
\* (part_006 627-676); Object.keys does not list the property ds.KEY
Model_sanitize(sch, data, writeDisabled) ==
    IF data.t \in {"undefined", "null"} THEN Val("throw", "TypeError", NoProps)
    ELSE IF ~isObject(data) THEN Null
    ELSE LET declared(k) == k \in DOMAIN sch.paths
             removed(k) ==
                 /\ k # "KEY"
                 /\ \/ isSchemaExplicitOnly(sch) /\ ~declared(k)
                    \/ declared(k) /\ ~sch.paths[k].write /\ ~writeDisabled
         IN  [data EXCEPT !.f =
                [k \in {x \in DOMAIN data.f : ~removed(x)} |->
                    IF k = "KEY" THEN data.f[k]
                    ELSE IF data.f[k] = Str("null") THEN Null
                    ELSE IF declared(k) /\ sch.paths[k].ref
                            /\ ~isKey(data.f[k])
                    THEN refToKey(data.f[k])
                    ELSE data.f[k]]]

\* validation of a path of type entityKey: null or a key
validRefs(sch, data) ==
    \A k \in DOMAIN data.f \cap DOMAIN sch.paths :
        sch.paths[k].ref => data.f[k].t \in {"null", "key"}

\* entity.save() of root entity i after populate (lib/entity.js 47-72)
PopSave ==
    /\ pop.pc = "done" /\ pop.outcome = "resolved" /\ pop.isEntityClass
    /\ \E i \in 1..Len(pop.entities), ok \in BOOLEAN :
          LET entityData == Model_sanitize(RootSchema, pop.entities[i], TRUE)
              saving == [pop EXCEPT !.pc = "saved", !.entities[i] = entityData]
          IN  pop' =
                IF schema.validateBeforeSave /\ ~validRefs(RootSchema, entityData)
                THEN [saving EXCEPT !.outcome = "rejected",
                                    !.err = "ERR_VALIDATION"]
                ELSE IF ~ok
                THEN [saving EXCEPT !.outcome = "rejected", !.err = "ERR_STORE"]
                ELSE [saving EXCEPT !.written = <<entityData>>]
    /\ UNCHANGED popVars

NextPopulate == Populate \/ PopLevel \/ PopFetched \/ PopMerge \/ PopSave

SpecPopulate == InitPopulate /\ [][NextPopulate]_vars

(***************************************************************************)
(* Functions of the library, applied to arguments drawn from small sets    *)
(***************************************************************************)
\* the options a Schema is created with: explicitOnly is "true", "false" or
\* "unset"; joi is "none", "true" (joi: true), "allowUnknown"
\* (joi: {options: {allowUnknown: true}}) or "noStrip"
\* (joi: {options: {stripUnknown: false}})
ProvidedOptions ==
    [explicitOnly : {"true", "false", "unset"},
     joi : {"none", "true", "allowUnknown", "noStrip"}]

\* the paths of the schema: a, w (write: false) and r (type entityKey)
SanPaths ==
    [a |-> Path(TRUE, FALSE), w |-> Path(FALSE, FALSE), r |-> Path(TRUE, TRUE)]

\* Schema.initSchemaOptions (part_005 26-34, 275-294)
initSchemaOptions(provided) ==
    LET explicitOnly == provided.explicitOnly # "false"
        allowUnknown == provided.joi = "allowUnknown" \/ ~explicitOnly
    IN  [paths |-> SanPaths, explicitOnly |-> explicitOnly,
         isJoi |-> provided.joi # "none", allowUnknown |-> allowUnknown,
         stripUnknown |-> provided.joi # "noStrip" /\ ~allowUnknown]

\* properties of a record: "null" -> null, and unknown or read-only
\* properties removed
sanitizeProps(data, explicit, dropUnwritable) ==
    LET removed(k) ==
            /\ k # "KEY"
            /\ \/ explicit /\ k \notin DOMAIN SanPaths
               \/ dropUnwritable /\ k \in DOMAIN SanPaths
                    /\ ~SanPaths[k].write
    IN  [data EXCEPT !.f =
            [k \in {x \in DOMAIN data.f : ~removed(x)} |->
                IF k # "KEY" /\ data.f[k] = Str("null") THEN Null
                ELSE data.f[k]]]

\* sanitize(data, schema, options) of part_003 21-59
sanitize_js(provided, data, writeDisabled) ==
    IF ~isObject(data) THEN Null
    ELSE sanitizeProps(data,
                       IF provided.joi # "none"
                       THEN provided.joi # "allowUnknown"
                       ELSE provided.explicitOnly # "false",
                       ~writeDisabled)

\* Model.sanitize(data) of part_002 757-772, which works on data itself: a
\* property that is not writable is removed only with explicitOnly
sanitize_cb(provided, data) ==
    IF ~isObject(data) THEN Null
    ELSE sanitizeProps(data, provided.explicitOnly # "false",
                       provided.explicitOnly # "false")

\* the sanitize of the generation
sanitizeOf(v, provided, data, writeDisabled) ==
    CASE v = "ts" -> Model_sanitize(initSchemaOptions(provided), data,
                                    writeDisabled)
      [] v = "js" -> sanitize_js(provided, data, writeDisabled)
      [] v = "cb" -> sanitize_cb(provided, data)

\* the records passed to sanitize
SanValues == {Undef, Str("x"), Str("null")}
SanRecords ==
    {Obj("", [k \in {x \in {"a", "w", "z", "r"} : r[x] # Undef} |-> r[k]]) :
        r \in [a : SanValues, w : SanValues, z : SanValues,
               r : {Undef, Key(Address1),
                    Obj(Address1, [city |-> Str("Paris"),
                                   KEY |-> Key(Address1)])}]}
SanInputs == SanRecords \cup {Null, Str("x")}

\* a call of sanitize(data)
InitSanitize ==
    /\ schema = [nPreSave |-> 0, nPostSave |-> 0, nPreDelete |-> 0,
                 nPostDelete |-> 0, validateBeforeSave |-> TRUE]
    /\ \E provided \in ProvidedOptions, data \in SanInputs,
          writeDisabled \in BOOLEAN :
          /\ ver # "cb" \/ (provided.joi = "none" /\ ~writeDisabled)
          /\ fn = [pc |-> "call", op |-> "sanitize", provided |-> provided,
                   data |-> data, writeDisabled |-> writeDisabled,
                   arg |-> data, out |-> Undef, out2 |-> Undef]

\* the ways a record gets saved: entity.save(), Model.update(), which ends in
\* entity.save(transaction), and gstore.save(entities, transaction, options)
SavePaths == {"entity.save", "Model.update", "gstore.save"}

\* a save of an entity whose entityData is data; the schema is not a Joi
\* schema
InitSave ==
    /\ schema \in [nPreSave : {0}, nPostSave : {0}, nPreDelete : {0},
                    nPostDelete : {0}, validateBeforeSave : BOOLEAN]
    /\ \E path \in SavePaths, explicitOnly \in {"true", "false"},
          data \in SanRecords, sanitizeEntityData \in BOOLEAN,
          validateOpt \in BOOLEAN, withTx \in BOOLEAN :
          /\ path = "gstore.save" => ver \in {"ts", "js"}
          /\ sanitizeEntityData \/ (ver = "ts" /\ path = "entity.save")
          /\ validateOpt \/ path = "gstore.save"
          /\ path = "Model.update" => withTx
          /\ fn = [pc |-> IF path = "gstore.save" THEN "gstore"
                          ELSE IF ver = "ts" THEN "sanitize" ELSE "validate",
                   op |-> "save", path |-> path,
                   provided |-> [explicitOnly |-> explicitOnly,
                                 joi |-> "none"],
                   data |-> data, sanitizeEntityData |-> sanitizeEntityData,
                   validate |-> validateOpt, withTx |-> withTx, trace |-> <<>>]

\* the id passed to new Model(data, id, ancestors, namespace, key): strings
\* are sequences of characters
IdStr(s) == [t |-> "string", s |-> s, n |-> 0]
IdNum(n) == [t |-> "number", s |-> <<>>, n |-> n]
IdOther(t) == [t |-> t, s |-> <<>>, n |-> 0]
Ids ==
    {IdStr(<<"1", "2", "3">>), IdStr(<<"7">>), IdStr(<<"1", ".", "5">>),
     IdStr(<<"k", "1">>), IdStr(<<>>), IdNum(123), IdNum(0),
     IdOther("true"), IdOther("false"), IdOther("null"),
     IdOther("undefined"), IdOther("object")}
KeyTypes == {"unset", "name", "id"}

Digits == {"0", "1", "2", "3", "4", "5", "6", "7", "8", "9"}
DigitValue(c) ==
    CASE c = "0" -> 0 [] c = "1" -> 1 [] c = "2" -> 2 [] c = "3" -> 3
      [] c = "4" -> 4 [] c = "5" -> 5 [] c = "6" -> 6 [] c = "7" -> 7
      [] c = "8" -> 8 [] c = "9" -> 9
\* the number a string of digits stands for
RECURSIVE ToNat(_)
ToNat(s) ==
    IF s = <<>> THEN 0
    ELSE 10 * ToNat(SubSeq(s, 1, Len(s) - 1)) + DigitValue(s[Len(s)])
\* isFinite(string) of JavaScript for strings of digits, "." and letters
isFinite(s) ==
    /\ \A i \in 1..Len(s) : s[i] \in Digits \cup {"."}
    /\ Cardinality({i \in 1..Len(s) : s[i] = "."}) <= 1
    /\ s # <<".">>
\* if (id): the id is truthy
truthy(id) ==
    CASE id.t = "string" -> id.s # <<>>
      [] id.t = "number" -> id.n # 0
      [] id.t \in {"false", "null", "undefined"} -> FALSE
      [] OTHER -> TRUE

\* the last element of the path of a key: ds.int(value), a string or a
\* number
PathInt(s) == [t |-> "int", s |-> s, n |-> 0]
IdThrow == [t |-> "throw", s |-> <<>>, n |-> 0]
\* parseId(self, id) (lib/entity.js 353-371)
parseId(keyType, id) ==
    IF id.t = "string"
    THEN IF keyType = "name" THEN id
         ELSE IF keyType = "id" THEN PathInt(id.s)
         ELSE IF isFinite(id.s) THEN PathInt(id.s) ELSE id
    ELSE IF id.t # "number" THEN IdThrow
    ELSE id
\* a Key: its identifier is an id (an integer: Key.id holds the digits of a
\* ds.int(), or the number), a name, or missing (a partial key)
EntityKey(ident, s, n) == [ident |-> ident, s |-> s, n |-> n]
PartialKey == EntityKey("none", <<>>, 0)
KeyThrow == EntityKey("throw", <<>>, 0)
\* createKey(self, id, ancestors, namespace) without ancestors and namespace
\* (lib/entity.js 320-345), with ds.key(path) of the Datastore client
createKey(keyType, id) ==
    IF truthy(id)
    THEN LET parsed == parseId(keyType, id)
         IN  CASE parsed.t = "throw" -> KeyThrow
               [] parsed.t = "int" ->
                    EntityKey("id", parsed.s,
                              IF \A i \in 1..Len(parsed.s) :
                                    parsed.s[i] \in Digits
                              THEN ToNat(parsed.s) ELSE 0)
               [] parsed.t = "number" -> EntityKey("id", <<>>, parsed.n)
               [] parsed.t = "string" -> EntityKey("name", parsed.s, 0)
    ELSE PartialKey

\* new Model(data, id, ancestors, namespace, key) (lib/entity.js 15-33)
InitConstruct ==
    /\ ver = "ts"
    /\ schema = [nPreSave |-> 0, nPostSave |-> 0, nPreDelete |-> 0,
                 nPostDelete |-> 0, validateBeforeSave |-> TRUE]
    /\ \E keyType \in KeyTypes, id \in Ids, keyArg \in BOOLEAN :
          fn = [pc |-> "call", op |-> "construct", keyType |-> keyType,
                id |-> id, keyArg |-> keyArg, entityKey |-> PartialKey]

\* gstore.model(entityKind, schema, options): the kinds, and what is passed
\* as schema: one of two Schema instances, a plain object of path
\* definitions, or nothing. A Schema is known by a number, 0 is no schema.
MaxCalls == 3
Kinds == {"Blog", "User"}
SchemaArgs == {"S1", "S2", "plain", "none"}
NoModel == [schema |-> 0, serial |-> 0]
NoCall ==
    [entityKind |-> "", arg |-> "none", schema |-> 0, cache |-> TRUE,
     result |-> "none", model |-> NoModel,
     before |-> [k \in Kinds |-> NoModel]]

\* the mutant of overrides: no check
overrides_never(sch, cached) == FALSE
\* schema && schema.instanceOfSchema && schema !== this.models[kind].schema
\* (lib/index.js 78)
overrides(sch, cached) == sch # 0 /\ sch # cached.schema

\* Gstore.model (lib/index.js 58-93) on the registries g.modelSchemas and
\* g.models; Model.compile (part_006 56-63) throws a TypeError on
\* `NewModel.schema.__meta = ...` without a schema
Gstore_model(g, entityKind, arg, cache) ==
    LET wrapped == arg = "plain"
        sch == CASE arg = "S1" -> 1 [] arg = "S2" -> 2
                 [] arg = "plain" -> g.nextSchema [] OTHER -> 0
        g1 == [g EXCEPT !.nextSchema = IF wrapped THEN @ + 1 ELSE @,
                        !.calls = @ + 1]
        called(result, model) ==
            [entityKind |-> entityKind, arg |-> arg, schema |-> sch,
             cache |-> cache, result |-> result, model |-> model,
             before |-> g.models]
        missing == g.modelSchemas[entityKind] = 0 /\ sch = 0
        g2 == IF g.modelSchemas[entityKind] = 0
              THEN [g1 EXCEPT !.modelSchemas[entityKind] = sch]
              ELSE g1
        cached == g.models[entityKind]
        compiled == [schema |-> sch, serial |-> g.nextModel]
    IN  IF missing
        THEN [g1 EXCEPT !.last = called("Schema missing", NoModel)]
        ELSE IF cached # NoModel /\ cache
        THEN IF overrides(sch, cached)
             THEN [g2 EXCEPT !.last = called("Trying to override", NoModel)]
             ELSE [g2 EXCEPT !.last = called("ok", cached)]
        ELSE IF sch = 0
        THEN [g2 EXCEPT !.last = called("TypeError", NoModel)]
        ELSE IF ~cache
        THEN [g2 EXCEPT !.nextModel = @ + 1, !.last = called("ok", compiled)]
        ELSE [g2 EXCEPT !.nextModel = @ + 1,
                        !.models[entityKind] = compiled,
                        !.last = called("ok", compiled)]

\* a Gstore instance with no model
InitRegistry ==
    /\ ver = "ts"
    /\ schema = [nPreSave |-> 0, nPostSave |-> 0, nPreDelete |-> 0,
                 nPostDelete |-> 0, validateBeforeSave |-> TRUE]
    /\ fn = [pc |-> "idle", op |-> "model",
             modelSchemas |-> [k \in Kinds |-> 0],
             models |-> [k \in Kinds |-> NoModel],
             nextSchema |-> 3, nextModel |-> 1, calls |-> 0, last |-> NoCall]

\* the definition of a path of a schema, as far as the list of exclusions
\* reads it: type is "string", "array" or "joiArray" (joi: Joi.array(), no
\* type); excludeFromIndexes is a sequence of sub-paths, or <<"true">>,
\* <<"false">>, or <<>> for no option
PathDef(type, excludeFromIndexes, optional) ==
    [type |-> type, excludeFromIndexes |-> excludeFromIndexes,
     optional |-> optional]
ExcludeOptions == {<<>>, <<"true">>, <<"false">>, <<"sub">>, <<"p1", "p2">>}
PathDefs ==
    {PathDef(t, x, o) : t \in {"string", "array", "joiArray"},
                        x \in ExcludeOptions, o \in BOOLEAN}
\* Object.keys(schema.paths)
PathNames == <<"bio", "tags">>

\* k.sub and k[].sub
RECURSIVE formatted(_, _, _)
formatted(k, sep, subs) ==
    IF subs = <<>> THEN <<>>
    ELSE <<k \o sep \o Head(subs)>> \o formatted(k, sep, Tail(subs))

\* the entries one path adds to self.excludeFromIndexes (lib/entity.js
\* 424-448)
excludedOf(k, prop) ==
    LET isTypeArray == prop.type \in {"array", "joiArray"}
        isBoolean == prop.excludeFromIndexes \in {<<"true">>, <<"false">>}
    IN  IF prop.excludeFromIndexes = <<"true">> /\ ~isTypeArray THEN <<k>>
        ELSE IF ~isBoolean
        THEN IF prop.type = "array"
             THEN formatted(k, "[].", prop.excludeFromIndexes)
             ELSE formatted(k, ".", prop.excludeFromIndexes)
        ELSE <<>>

\* buildEntityData(self, data) (lib/entity.js 373-455): the names of the
\* properties of entityData, a path without value getting its default
\* unless it is optional or the schema is a Joi schema, and the list
buildEntityData_excludeFromIndexes(paths, isJoi, given) ==
    LET RECURSIVE list(_)
        list(i) ==
            IF i > Len(PathNames) THEN <<>>
            ELSE excludedOf(PathNames[i], paths[PathNames[i]]) \o list(i + 1)
    IN  [entityData |->
            given \cup {PathNames[i] : i \in
                          {j \in 1..Len(PathNames) :
                              ~isJoi /\ ~paths[PathNames[j]].optional}},
         excludeFromIndexes |-> list(1)]

\* new Model(data) for a schema with the paths bio and tags
InitBuild ==
    /\ ver = "ts"
    /\ schema = [nPreSave |-> 0, nPostSave |-> 0, nPreDelete |-> 0,
                 nPostDelete |-> 0, validateBeforeSave |-> TRUE]
    /\ \E bio \in PathDefs, tags \in PathDefs, isJoi \in BOOLEAN,
          given \in SUBSET {"bio", "tags"} :
          /\ isJoi = (bio.type = "joiArray" \/ tags.type = "joiArray")
          /\ fn = [pc |-> "call", op |-> "build",
                   paths |-> [bio |-> bio, tags |-> tags], isJoi |-> isJoi,
                   given |-> given, entityData |-> {},
                   excludeFromIndexes |-> <<>>]

\* what a read of one key hands to the callback: the array of the
\* entities found after arrify(); ds.get() and transaction.get() leave a
\* missing entity out, dataloader.loadMany() has null in its place
fetchEntityByKey(mode, stored) ==
    IF stored THEN <<"data">>
    ELSE IF mode = "dataloader" THEN <<"null">> ELSE <<>>

\* what ds.get() resolves with: an array, or nothing
Fetched(items) == [defined |-> TRUE, items |-> items]
NoResult == [defined |-> FALSE, items |-> <<>>]

GetResult(outcome_, value, err_) ==
    [outcome |-> outcome_, value |-> value, err |-> err_]

\* onEntity of Model.get for one id (part_006 148-176)
onEntity(entityData, errorOnEntityNotFound) ==
    IF entityData = <<>> \/ entityData[1] \in {"undefined", "null"}
    THEN IF errorOnEntityNotFound
         THEN GetResult("rejected", "none", "ERR_ENTITY_NOT_FOUND")
         ELSE GetResult("resolved", "null", "")
    ELSE GetResult("resolved", "entity", "")

\* Model.populate(refs)(entitiesToProcess) for what onEntity returned, the
\* references being found: nothing to do without refs, else arrify() and
\* entities[0] (part_006 744-752, 829-836)
populateResult(chained, value) ==
    IF ~chained THEN value
    ELSE IF value = "null" THEN "undefined" ELSE value

\* onSuccess of entity.datastoreEntity() (lib/entity.js 272-288)
datastoreEntity_onSuccess(result, errorOnEntityNotFound) ==
    LET datastoreEntity ==
            IF ~result.defined THEN "null"
            ELSE IF result.items = <<>> THEN "undefined"
            ELSE result.items[1]
    IN  IF datastoreEntity \in {"null", "undefined"}
        THEN IF errorOnEntityNotFound
             THEN GetResult("rejected", "none", "ERR_ENTITY_NOT_FOUND")
             ELSE GetResult("resolved", "null", "")
        ELSE GetResult("resolved", "entity", "")

\* Model.get(id, ancestors, namespace, transaction, options), with or
\* without .populate() chained, and entity.datastoreEntity()
InitGet ==
    /\ ver = "ts"
    /\ schema = [nPreSave |-> 0, nPostSave |-> 0, nPreDelete |-> 0,
                 nPostDelete |-> 0, validateBeforeSave |-> TRUE]
    /\ \E path \in {"Model.get", "datastoreEntity"},
          errorOnEntityNotFound \in BOOLEAN,
          mode \in {"ds", "transaction", "dataloader"},
          stored \in BOOLEAN, chained \in BOOLEAN :
          /\ path = "datastoreEntity" => mode = "ds" /\ ~chained
          /\ fn = [pc |-> "call", op |-> "get", path |-> path,
                   errorOnEntityNotFound |-> errorOnEntityNotFound,
                   mode |-> mode, stored |-> stored, chained |-> chained,
                   fetched |-> NoResult,
                   result |-> GetResult("pending", "none", ""),
                   entityData |-> "memory"]

\* entities and the Model that take part in one transaction, and the post
\* hooks each of them has: hook i of its owner
MaxRegs == 3
Owners == {"entityA", "entityB", "Model"}
postsOf(owner, n) == [k \in 1..n |-> [owner |-> owner, i |-> k]]

\* transaction.execPostHooks() (part_006 596-602): every hook of
\* transaction.hooks.post is bound to the _this of the hooksTransaction call
\* that defined execPostHooks last
executePostHooks(t) ==
    [k \in 1..Len(t.post) |-> [hook |-> t.post[k], this |-> t.scope]]

\* a transaction that has been run, with no hooks yet
InitHooksTransaction ==
    /\ ver = "ts"
    /\ schema = [nPreSave |-> 0, nPostSave |-> 0, nPreDelete |-> 0,
                 nPostDelete |-> 0, validateBeforeSave |-> TRUE]
    /\ fn = [pc |-> "running", op |-> "hooksTransaction",
             tx |-> TxOf("external"), regs |-> 0, ran |-> <<>>]

\* entity.plain(options) for a schema with the paths name, password
\* (read: false) and embedded (excludeFromRead: ['prop1']) and the virtual
\* property fullname; the key of the entity ends in KeyLast
MaxPlain == 2
KeyLast == Str("1234")
PlainReadFalse == {"password"}
PlainPaths == {"name", "password", "embedded"}
excludeFromRead == [embedded |-> {"prop1"}]
Virtuals == {"fullname"}
Without(f, k) == [x \in DOMAIN f \ {k} |-> f[x]]
With(f, k, v) == [x \in DOMAIN f \cup {k} |-> IF x = k THEN v ELSE f[x]]

PlainRecords ==
    {[k \in {x \in {"name", "password", "embedded", "id"} : r[x] # Undef}
        |-> r[k]] :
        r \in [name : {Str("John")}, password : {Undef, Str("test")},
               embedded : {Undef, Null,
                           Obj("", [prop1 |-> Str("1"), prop3 |-> Str("3")])},
               id : {Undef, Str("mine")}]}

\* getEntityDataWithVirtuals() (lib/entity.js 302-316): a copy of
\* entityData; a virtual property that has no value gets the one of its
\* getter, here the name
getEntityDataWithVirtuals(entityData) ==
    IF "fullname" \in DOMAIN entityData THEN entityData
    ELSE With(entityData, "fullname",
              IF "name" \in DOMAIN entityData THEN entityData.name ELSE Null)

\* the value of an embedded property after `delete v[segment]` for the
\* paths of excludeFromRead, which have one segment here
deleteExcluded(value, props) ==
    [value EXCEPT !.f = [x \in DOMAIN value.f \ props |-> value.f[x]]]

\* `segment in v` throws a TypeError unless v is an object
inThrows(k, entityData, readAll) ==
    /\ k \in DOMAIN excludeFromRead /\ ~readAll
    /\ entityData[k].t # "object"

\* convertToJson of fromDatastore (queryhelpers.ts 174-221, lib/entity.js
\* 544-597): the object returned, and entityData after the call, whose
\* embedded objects are the ones the excluded properties are deleted from
convertToJson(entityData, readAll) ==
    LET shown == {k \in DOMAIN entityData :
                    readAll \/ k \notin PlainPaths
                    \/ k \notin PlainReadFalse}
        valueOf(k) ==
            IF k \in DOMAIN excludeFromRead /\ ~readAll
            THEN deleteExcluded(entityData[k], excludeFromRead[k])
            ELSE entityData[k]
    IN  IF \E k \in shown : inThrows(k, entityData, readAll)
        THEN [threw |-> TRUE, data |-> <<>>, entityData |-> entityData]
        ELSE [threw |-> FALSE,
              data |-> [k \in shown \cup {"id"} |->
                          IF k \in shown THEN valueOf(k) ELSE KeyLast],
              entityData |-> [k \in DOMAIN entityData |->
                                IF k \in shown THEN valueOf(k)
                                ELSE entityData[k]]]

\* Entity.plain(options) (lib/entity.js 213-230)
Entity_plain(entityData, options) ==
    convertToJson(IF options.virtuals
                  THEN getEntityDataWithVirtuals(entityData)
                  ELSE entityData,
                  options.readAll)

\* an entity with its record, plain() not called yet
InitPlain ==
    /\ ver = "ts"
    /\ schema = [nPreSave |-> 0, nPostSave |-> 0, nPreDelete |-> 0,
                 nPostDelete |-> 0, validateBeforeSave |-> TRUE]
    /\ \E data \in PlainRecords :
          fn = [pc |-> "idle", op |-> "plain", entityData |-> data,
                before |-> data, calls |-> 0,
                options |-> [readAll |-> FALSE, virtuals |-> FALSE],
                threw |-> FALSE, data |-> <<>>]

\* Model.update(id, data, ancestors, namespace, transaction, options) with
\* records whose properties hold strings and objects
Nested1 == Obj("", [p |-> Str("1"), q |-> Str("2")])
Nested2 == Obj("", [p |-> Str("9")])
Props(r, names) == Obj("", [k \in {x \in names : r[x] # Str("-")} |-> r[k]])
\* the record of the key in the store, Undef when there is none
StoredChoices ==
    {Undef} \cup
    {Props(r, {"a", "w", "z"}) :
        r \in [a : {Str("x"), Nested1}, w : {Str("-"), Str("s")},
               z : {Str("-"), Str("old")}]}
\* the data of the call; a property may hold undefined
UpdateChoices ==
    {Props(r, {"a", "z"}) :
        r \in [a : {Str("-"), Undef, Str("y"), Nested2, Str("null")},
               z : {Str("-"), Str("new")}]}

\* extend(true, target, source) of the extend package: objects are merged
extend_true(target, source) ==
    [target EXCEPT !.f =
        [k \in DOMAIN target.f \cup
                {x \in DOMAIN source.f : source.f[x] # Undef} |->
            IF k \notin DOMAIN source.f \/ source.f[k] = Undef
            THEN target.f[k]
            ELSE IF k \in DOMAIN target.f /\ target.f[k].t = "object"
                    /\ source.f[k].t = "object"
            THEN Obj("", [x \in DOMAIN target.f[k].f \cup
                                DOMAIN source.f[k].f |->
                            IF x \in DOMAIN source.f[k].f
                            THEN source.f[k].f[x] ELSE target.f[k].f[x]])
            ELSE source.f[k]]]

\* extend(false, entity, data) (part_006 274): every property of data that
\* is not undefined is copied over the one of entity
extend_false(target, source) ==
    [target EXCEPT !.f =
        [k \in DOMAIN target.f \cup
                {x \in DOMAIN source.f : source.f[x] # Undef} |->
            IF k \notin DOMAIN source.f \/ source.f[k] = Undef
            THEN target.f[k]
            ELSE source.f[k]]]

\* buildEntityData (lib/entity.js 391-417): a path of the schema without
\* value gets its default, null
setDefaultValues(sch, data) ==
    [data EXCEPT !.f =
        [k \in DOMAIN data.f \cup DOMAIN sch.paths |->
            IF k \in DOMAIN data.f THEN data.f[k] ELSE Null]]

\* toDatastore (queryhelpers.ts 139-148): properties holding undefined are
\* not written
toDatastore(data) ==
    [data EXCEPT !.f =
        [k \in {x \in DOMAIN data.f : data.f[x] # Undef} |-> data.f[k]]]

InitUpdate ==
    /\ ver = "ts"
    /\ schema = [nPreSave |-> 0, nPostSave |-> 0, nPreDelete |-> 0,
                 nPostDelete |-> 0, validateBeforeSave |-> TRUE]
    /\ \E replace \in BOOLEAN, txGiven \in BOOLEAN,
          explicitOnly \in {"true", "false"},
          stored \in StoredChoices, data \in UpdateChoices :
          fn = [pc |-> "call", op |-> "update", replace |-> replace,
                txGiven |-> txGiven,
                provided |-> [explicitOnly |-> explicitOnly, joi |-> "none"],
                stored |-> stored, data |-> data,
                internalTransaction |-> FALSE, read |-> FALSE,
                entityData |-> Undef, saved |-> Undef, err |-> ""]

\* Model.update with options.dataloader while other calls load the key
\* through the same dataloader
MaxLoads == 2
\* the dataloader caches what load(key) fetched: nothing, a fetch that has
\* not answered yet, or the record before or after the update
InitDataloader ==
    /\ ver \in {"ts", "js"}
    /\ schema = [nPreSave |-> 0, nPostSave |-> 0, nPreDelete |-> 0,
                 nPostDelete |-> 0, validateBeforeSave |-> TRUE]
    /\ \E cached \in {"none", "before"} :
          fn = [pc |-> "saved", op |-> "dataloader", record |-> "before",
                cached |-> cached, loads |-> 0, committed |-> FALSE,
                cleared |-> FALSE, clearedAfterCommit |-> FALSE,
                err |-> ""]

\* Model.delete calls of one Model that overlap: one without transaction,
\* whose ds.delete is in flight, and up to MaxTxDeletes inside transactions
MaxTxDeletes == 2
InitOverlap ==
    /\ ver \in {"ts", "js"}
    /\ \E nPostDelete \in 0..1 :
          schema = [nPreSave |-> 0, nPostSave |-> 0, nPreDelete |-> 0,
                    nPostDelete |-> nPostDelete, validateBeforeSave |-> TRUE]
    /\ \E hooksEnabled \in BOOLEAN :
          fn = [pc |-> "idle", op |-> "overlap",
                hooksEnabled |-> hooksEnabled, txDeletes |-> 0,
                overlapped |-> FALSE, atCompletion |-> FALSE,
                postRan |-> 0, err |-> "",
                tx |-> TxOf("external")]

\* parseInt(s, 10) of a string isFinite accepts: the digits before the
\* point, NaN when there are none
IntegerPart(s) ==
    LET dots == {i \in 1..Len(s) : s[i] = "."}
    IN  IF dots = {} THEN s
        ELSE SubSeq(s, 1, (CHOOSE i \in dots : TRUE) - 1)
\* parseId(id) of part_003 (1121-1123):
\* id !== null && isFinite(id) ? parseInt(id, 10) : id
parseId_js(id) ==
    IF id.t = "string" /\ isFinite(id.s)
    THEN IF IntegerPart(id.s) = <<>> THEN IdOther("NaN")
         ELSE IdNum(ToNat(IntegerPart(id.s)))
    ELSE id
\* Model.key(id) without ancestors and namespace: ds.key([entityKind, id]),
\* the id as it is given (part_006 530-579) or parsed (part_003 562-615)
Model_key(v, id) ==
    LET last == IF v = "js" THEN parseId_js(id) ELSE id
    IN  CASE last.t = "number" -> EntityKey("id", <<>>, last.n)
          [] last.t = "string" -> EntityKey("name", last.s, 0)
          [] OTHER -> EntityKey(last.t, <<>>, 0)
\* the ids of a call of get, update or delete: numbers and strings
CallIds == {id \in Ids : id.t \in {"string", "number"}}
InitKey ==
    /\ ver \in {"ts", "js"}
    /\ schema = [nPreSave |-> 0, nPostSave |-> 0, nPreDelete |-> 0,
                 nPostDelete |-> 0, validateBeforeSave |-> TRUE]
    /\ \E keyType \in KeyTypes, id \in CallIds :
          fn = [pc |-> "call", op |-> "key", keyType |-> keyType, id |-> id,
                modelKey |-> PartialKey, entityKey |-> PartialKey]

InitFn ==
    /\ ver \in Versions
    /\ cacheOn = FALSE
    /\ call = [op |-> "fn", txArg |-> "none", replace |-> FALSE,
               dl |-> FALSE, data |-> EmptyRec, method |-> "upsert"]
    /\ pc = "idle"
    /\ idx = 1
    /\ internalTransaction = FALSE
    /\ ent = NoEnt
    /\ modelHooksEnabled = TRUE
    /\ tx = NoTx
    /\ store = EmptyStore
    /\ log = <<>>
    /\ outcome = "pending"
    /\ err = ""
    /\ da = DaIdle
    /\ pop = PopIdle
    /\ \/ InitSanitize \/ InitSave \/ InitConstruct \/ InitRegistry
       \/ InitBuild \/ InitGet \/ InitHooksTransaction \/ InitPlain
       \/ InitUpdate \/ InitDataloader \/ InitOverlap \/ InitKey

fnVars == <<ver, schema, cacheOn, call, pc, idx, internalTransaction, ent,
            modelHooksEnabled, tx, store, log, outcome, err, da, pop>>

\* sanitize(data): the result, and the object passed in after the call
Sanitize ==
    /\ fn.pc = "call" /\ fn.op = "sanitize"
    /\ LET out == sanitizeOf(ver, fn.provided, fn.data, fn.writeDisabled)
       IN  fn' = [fn EXCEPT !.pc = "once", !.out = out,
                            !.arg = IF ver = "cb" /\ isObject(fn.data)
                                    THEN out ELSE @]
    /\ UNCHANGED fnVars

\* sanitize(sanitize(data))
SanitizeAgain ==
    /\ fn.pc = "once" /\ fn.op = "sanitize" /\ fn.out.t # "throw"
    /\ fn' = [fn EXCEPT !.pc = "twice",
                        !.out2 = sanitizeOf(ver, fn.provided, fn.out,
                                            fn.writeDisabled)]
    /\ UNCHANGED fnVars

\* an entry of fn.trace: what was done, and the record it was done to
SaveEv(ev, rec) == [ev |-> ev, rec |-> rec]

\* entity.save(), "Sanitize" (lib/entity.js 47-61)
SaveSanitize ==
    /\ fn.op = "save" /\ fn.pc = "sanitize"
    /\ IF fn.sanitizeEntityData
       THEN LET out == sanitizeOf(ver, fn.provided, fn.data, TRUE)
            IN  fn' = [fn EXCEPT !.pc = "validate", !.data = out,
                          !.trace = Append(@, SaveEv("sanitize", fn.data))]
       ELSE fn' = [fn EXCEPT !.pc = "validate"]
    /\ UNCHANGED fnVars

\* entity.validate(): lib/entity.js 200-211 hands entityData to the
\* validation helper; part_003 961-990 sanitizes first; part_002 950 does not
entityValidate(v, f) ==
    IF v = "js"
    THEN LET out == sanitizeOf(v, f.provided, f.data, TRUE)
         IN  [f EXCEPT !.data = out,
                       !.trace = @ \o <<SaveEv("sanitize", f.data),
                                        SaveEv("validate", out)>>]
    ELSE [f EXCEPT !.trace = Append(@, SaveEv("validate", f.data))]

\* entity.save(), "Validate": validateEntityData() (lib/entity.js 63-67,
\* 110-126; part_003 830-838, 881-887; part_002 831-834, 869-880)
SaveValidate ==
    /\ fn.op = "save" /\ fn.pc = "validate"
    /\ IF schema.validateBeforeSave
       THEN \E ok \in BOOLEAN :
               fn' = [entityValidate(ver, fn) EXCEPT
                         !.pc = IF ok THEN "write" ELSE "rejected"]
       ELSE fn' = [fn EXCEPT !.pc = "write"]
    /\ UNCHANGED fnVars

\* gstore.save(entities, transaction, {validate}) (lib/index.js 111-134)
GstoreSaveValidate ==
    /\ fn.op = "save" /\ fn.pc = "gstore"
    /\ IF fn.validate
       THEN \E ok \in BOOLEAN :
               fn' = [entityValidate(ver, fn) EXCEPT
                         !.pc = IF ok THEN "write" ELSE "rejected"]
       ELSE fn' = [fn EXCEPT !.pc = "write"]
    /\ UNCHANGED fnVars

\* the record goes to transaction.save() or ds.save() (lib/entity.js 69-86,
\* lib/index.js 136-144)
SaveWrite ==
    /\ fn.op = "save" /\ fn.pc = "write"
    /\ fn' = [fn EXCEPT !.pc = "done",
                        !.trace = Append(@, SaveEv(IF fn.withTx
                                                   THEN "transaction.save"
                                                   ELSE "ds.save", fn.data))]
    /\ UNCHANGED fnVars

\* the constructor of Entity: the key given, or createKey(id)
Construct ==
    /\ fn.op = "construct" /\ fn.pc = "call"
    /\ fn' = [fn EXCEPT !.pc = "done",
                        !.entityKey = IF fn.keyArg
                                      THEN EntityKey("name", <<"k">>, 0)
                                      ELSE createKey(fn.keyType, fn.id)]
    /\ UNCHANGED fnVars

\* a call of gstore.model()
GstoreModel ==
    /\ fn.op = "model" /\ fn.calls < MaxCalls
    /\ \E entityKind \in Kinds, arg \in SchemaArgs, cache \in BOOLEAN :
          fn' = Gstore_model(fn, entityKind, arg, cache)
    /\ UNCHANGED fnVars

\* the constructor of Entity: this.entityData = buildEntityData(this, data)
Build ==
    /\ fn.op = "build" /\ fn.pc = "call"
    /\ LET built == buildEntityData_excludeFromIndexes(fn.paths, fn.isJoi,
                                                        fn.given)
       IN  fn' = [fn EXCEPT !.pc = "done",
                            !.entityData = built.entityData,
                            !.excludeFromIndexes = built.excludeFromIndexes]
    /\ UNCHANGED fnVars

\* the read of the key is answered: the entities found, for
\* datastoreEntity() also [undefined] or nothing, or the read fails
GetFetch ==
    /\ fn.op = "get" /\ fn.pc = "call"
    /\ \/ \E fetched \in
               IF fn.path = "Model.get"
               THEN {Fetched(fetchEntityByKey(fn.mode, fn.stored))}
               ELSE IF fn.stored THEN {Fetched(<<"data">>)}
               ELSE {Fetched(<<"undefined">>), Fetched(<<>>), NoResult} :
               fn' = [fn EXCEPT !.pc = "fetched", !.fetched = fetched]
       \/ fn' = [fn EXCEPT !.pc = "done",
                           !.result = GetResult("rejected", "none",
                                                "ERR_STORE")]
    /\ UNCHANGED fnVars

\* onEntity of Model.get, onSuccess of datastoreEntity(), which takes the
\* data found as the record of the entity
GetOnEntity ==
    /\ fn.op = "get" /\ fn.pc = "fetched"
    /\ IF fn.path = "Model.get"
       THEN LET r == onEntity(fn.fetched.items, fn.errorOnEntityNotFound)
            IN  fn' = [fn EXCEPT !.result = r,
                          !.pc = IF r.outcome = "rejected" THEN "done"
                                 ELSE "populate"]
       ELSE LET r == datastoreEntity_onSuccess(fn.fetched,
                                               fn.errorOnEntityNotFound)
            IN  fn' = [fn EXCEPT !.result = r, !.pc = "done",
                          !.entityData = IF r.value = "entity"
                                         THEN fn.fetched.items[1] ELSE @]
    /\ UNCHANGED fnVars

\* .then(this.populate(refsToPopulate, options)) of Model.get
GetPopulate ==
    /\ fn.op = "get" /\ fn.pc = "populate"
    /\ fn' = [fn EXCEPT !.pc = "done",
                        !.result.value = populateResult(fn.chained, @)]
    /\ UNCHANGED fnVars

\* entity.save(transaction): addPostHooksTransaction (lib/entity.js
\* 187-197) hands the post save hooks of the entity to the transaction
TxSave ==
    /\ fn.op = "hooksTransaction" /\ fn.pc = "running"
    /\ fn.regs < MaxRegs
    /\ \E owner \in {"entityA", "entityB"}, n \in 0..2 :
          fn' = [fn EXCEPT !.regs = @ + 1,
                    !.tx = hooksTransaction(@, owner, postsOf(owner, n))]
    /\ UNCHANGED fnVars

\* Model.delete(id, ancestors, namespace, transaction) (part_006 378-385)
\* hands the post delete hooks of the Model to the transaction
TxDelete ==
    /\ fn.op = "hooksTransaction" /\ fn.pc = "running"
    /\ fn.regs < MaxRegs
    /\ \E n \in 0..2 :
          fn' = [fn EXCEPT !.regs = @ + 1,
                    !.tx = hooksTransaction(@, "Model", postsOf("Model", n))]
    /\ UNCHANGED fnVars

\* after the commit the caller runs transaction.execPostHooks(), which
\* exists once hooksTransaction has been called
TxExecPostHooks ==
    /\ fn.op = "hooksTransaction" /\ fn.pc = "running"
    /\ fn.regs > 0
    /\ fn' = [fn EXCEPT !.pc = "done", !.ran = executePostHooks(fn.tx)]
    /\ UNCHANGED fnVars

\* a call of entity.plain(options)
Plain ==
    /\ fn.op = "plain" /\ fn.calls < MaxPlain
    /\ \E options \in [readAll : BOOLEAN, virtuals : BOOLEAN] :
          LET r == Entity_plain(fn.entityData, options)
          IN  fn' = [fn EXCEPT !.calls = @ + 1, !.before = fn.entityData,
                        !.options = options, !.threw = r.threw,
                        !.data = r.data, !.entityData = r.entityData]
    /\ UNCHANGED fnVars

\* Model.update: with replace the data goes to saveEntity, else a
\* transaction is opened unless one is given (part_006 222-254)
UpdStart ==
    /\ fn.op = "update" /\ fn.pc = "call"
    /\ fn' = IF fn.replace
             THEN [fn EXCEPT !.pc = "save", !.entityData = fn.data]
             ELSE [fn EXCEPT !.pc = "get",
                             !.internalTransaction = ~fn.txGiven]
    /\ UNCHANGED fnVars

\* getEntity (part_006 266-283): transaction.get(key), then the merge
UpdGet ==
    /\ fn.op = "update" /\ fn.pc = "get"
    /\ fn' = IF fn.stored = Undef
             THEN [fn EXCEPT !.pc = "rejected", !.read = TRUE,
                             !.err = "ERR_ENTITY_NOT_FOUND"]
             ELSE [fn EXCEPT !.pc = "save", !.read = TRUE,
                             !.entityData = extend_false(fn.stored, fn.data)]
    /\ UNCHANGED fnVars

\* saveEntity (part_006 285-299): the entity is built and saved, sanitize
\* and validation first (lib/entity.js 47-72)
UpdSave ==
    /\ fn.op = "update" /\ fn.pc = "save"
    /\ \E valid \in BOOLEAN :
          LET sch == initSchemaOptions(fn.provided)
              entityData ==
                  Model_sanitize(sch, setDefaultValues(sch, fn.entityData),
                                 TRUE)
          IN  fn' = IF valid
                    THEN [fn EXCEPT !.pc = "done", !.entityData = entityData,
                                    !.saved = toDatastore(entityData)]
                    ELSE [fn EXCEPT !.pc = "rejected",
                                    !.entityData = entityData,
                                    !.err = "ERR_VALIDATION"]
    /\ UNCHANGED fnVars

\* onEntityUpdated, first half (part_006 301-315; part_003 340-345):
\* options.dataloader.clear(key)
DlClear ==
    /\ fn.op = "dataloader" /\ fn.pc = "saved"
    /\ fn' = [fn EXCEPT !.pc = "cleared", !.cached = "none",
                        !.cleared = TRUE, !.clearedAfterCommit = fn.committed]
    /\ UNCHANGED fnVars

\* onEntityUpdated, second half (part_006 317-323; part_003 347-351):
\* transaction.commit() writes the record of the update, or fails
DlCommit ==
    /\ fn.op = "dataloader" /\ fn.pc = "cleared"
    /\ \E ok \in BOOLEAN :
          fn' = IF ok
                THEN [fn EXCEPT !.pc = "resolved", !.record = "after",
                                !.committed = TRUE]
                ELSE [fn EXCEPT !.pc = "rejected", !.err = "ERR_COMMIT"]
    /\ UNCHANGED fnVars

\* another call: dataloader.load(key) caches the fetch it starts when the
\* key is not cached
DlLoad ==
    /\ fn.op = "dataloader" /\ fn.loads < MaxLoads
    /\ fn' = [fn EXCEPT !.loads = @ + 1,
                        !.cached = IF @ = "none" THEN "pending" ELSE @]
    /\ UNCHANGED fnVars

\* the fetch of a load answers with the record the store holds
DlFetch ==
    /\ fn.op = "dataloader" /\ fn.cached = "pending"
    /\ fn' = [fn EXCEPT !.cached = fn.record]
    /\ UNCHANGED fnVars

\* Model.delete(id) without transaction (part_006 362-386; part_003
\* 393-421): the flag is set, ds.delete(key) is issued
OvDelete ==
    /\ fn.op = "overlap" /\ fn.pc = "idle"
    /\ fn' = [fn EXCEPT !.pc = "ds.delete", !.hooksEnabled = TRUE]
    /\ UNCHANGED fnVars

\* Model.delete(id, null, null, transaction) of another caller (part_006
\* 362-386): the flag of the Model is set, then cleared; the post hooks go
\* to the transaction
OvTxDelete ==
    /\ fn.op = "overlap" /\ fn.txDeletes < MaxTxDeletes
    /\ fn' = [fn EXCEPT !.hooksEnabled = FALSE,
                        !.txDeletes = @ + 1,
                        !.overlapped = @ \/ fn.pc = "ds.delete",
                        !.tx = hooksTransaction(@, "Model",
                                   postsOf("Model", schema.nPostDelete))]
    /\ UNCHANGED fnVars

\* ds.delete answered: onDelete (part_006 390-424), then the hook wrapper
\* runs the post hooks when the flag of the Model is set
OvOnDelete ==
    /\ fn.op = "overlap" /\ fn.pc = "ds.delete"
    /\ \E ok \in BOOLEAN :
          fn' = IF ok
                THEN [fn EXCEPT !.pc = "resolved",
                                !.atCompletion = fn.hooksEnabled,
                                !.postRan = IF fn.hooksEnabled
                                            THEN schema.nPostDelete ELSE 0]
                ELSE [fn EXCEPT !.pc = "rejected", !.err = "ERR_DELETE"]
    /\ UNCHANGED fnVars

\* Model.key(id) and new Model({}, id) for one id
ModelKey ==
    /\ fn.op = "key" /\ fn.pc = "call"
    /\ fn' = [fn EXCEPT !.pc = "done",
                        !.modelKey = Model_key(ver, fn.id),
                        !.entityKey = createKey(fn.keyType, fn.id)]
    /\ UNCHANGED fnVars

NextFn ==
    \/ ModelKey
    \/ OvDelete
    \/ OvTxDelete
    \/ OvOnDelete
    \/ DlClear
    \/ DlCommit
    \/ DlLoad
    \/ DlFetch
    \/ UpdStart
    \/ UpdGet
    \/ UpdSave
    \/ Plain
    \/ TxSave
    \/ TxDelete
    \/ TxExecPostHooks
    \/ GetFetch
    \/ GetOnEntity
    \/ GetPopulate
    \/ Build
    \/ GstoreModel
    \/ Construct
    \/ Sanitize
    \/ SanitizeAgain
    \/ SaveSanitize
    \/ SaveValidate
    \/ GstoreSaveValidate
    \/ SaveWrite

SpecFn == InitFn /\ [][NextFn]_vars

(***************************************************************************)
(* Reading the log                                                         *)
(***************************************************************************)
Names == {log[j].e : j \in 1..Len(log)}
Issued(name) == name \in Names
Count(name) == Cardinality({j \in 1..Len(log) : log[j].e = name})
\* the asynchronous call completed, successfully
Succeeded(name) ==
    \E j \in 1..Len(log) : log[j].e = name /\ log[j].done /\ log[j].ok
\* hook events of a method and phase, in the order they ran
HookRuns(name) == SelectSeq(log, LAMBDA ev : ev.e = name)
\* a hook of that name rejected
HookFailed(name) == \E j \in 1..Len(log) : log[j].e = name /\ ~log[j].ok
TxCalls == {n \in Names : n \in {"tx.run", "tx.get", "tx.save", "tx.delete",
                                  "tx.commit", "tx.rollback"}}

\* update() without replace whose transaction.get(key) resolved with no record
ReadReturnedNothing ==
    /\ call.op = "update" /\ ~call.replace
    /\ Succeeded("tx.get")
    /\ KeyId \notin DOMAIN store

(***************************************************************************)
(* C1                                                                      *)
(***************************************************************************)
\* C1: in every update() without replace whose transactional read returns no
\* record, neither transaction.save nor ds.save nor transaction.commit is
\* called, and the call rejects with the entity-not-found error
\* (part_006 and part_003).
C1_NotFoundRejects ==
    (ver \in {"ts", "js"} /\ ReadReturnedNothing) =>
        /\ ~Issued("tx.save") /\ ~Issued("ds.save") /\ ~Issued("tx.commit")
        /\ pc = "done" => (outcome = "rejected" /\ err = "ERR_ENTITY_NOT_FOUND")

\* C1 restricted to the TypeScript generation (part_006)
C1_NotFoundRejects_ts ==
    (ver = "ts" /\ ReadReturnedNothing) =>
        /\ ~Issued("tx.save") /\ ~Issued("ds.save") /\ ~Issued("tx.commit")
        /\ pc = "done" => (outcome = "rejected" /\ err \in {"ERR_ENTITY_NOT_FOUND", "ERR_ROLLBACK"})

(***************************************************************************)
(* C2                                                                      *)
(***************************************************************************)
\* C2: an update() that is given the caller's transaction never commits it
\* and never rolls it back; on that transaction it only issues
\* transaction.get and transaction.save (part_006, part_003, part_002).
C2_CallerTxUntouched ==
    (call.op = "update" /\ call.txArg = "external") =>
        TxCalls \subseteq {"tx.get", "tx.save"}

\* C2 restricted to the TypeScript generation (part_006)
C2_CallerTxUntouched_ts ==
    (ver = "ts" /\ call.op = "update" /\ call.txArg = "external") =>
        TxCalls \subseteq {"tx.get", "tx.save"}

(***************************************************************************)
(* C3                                                                      *)
(***************************************************************************)
\* C3: when update() opened the transaction itself (part_006), then at the
\* time its promise settles the transaction has been committed or a rollback
\* of it has been called, whatever run, get, save, commit and the cache
\* invalidation answered.
C3_InternalTxTerminated ==
    (ver = "ts" /\ call.op = "update" /\ internalTransaction /\ pc = "done") =>
        \/ tx.state = "committed"
        \/ \E j \in 1..Len(log) : log[j].e = "tx.rollback" /\ log[j].done

\* an update with an internal transaction settled after a failed commit
C3_Witness ==
    /\ ver = "ts" /\ call.op = "update" /\ internalTransaction /\ pc = "done"
    /\ \E j \in 1..Len(log) : log[j].e = "tx.commit" /\ ~log[j].ok
    /\ tx.state = "rolledback"

(***************************************************************************)
(* C4                                                                      *)
(***************************************************************************)
C4_Scope == ver = "ts" /\ call.op = "save" /\ call.txArg = "external"

\* C4: entity.save(transaction) with a Transaction never calls ds.save and
\* calls transaction.save at most once. When it gets past validation it
\* settles in the same step: transaction.save was called exactly once with
\* the record of the entity, the entity's __hooksEnabled is false, the post
\* "save" hooks of the entity are the post hooks of the transaction and none
\* of them has run before the caller's commit, and the promise is resolved.
\* The record is in the store only once the caller has committed.
C4_SaveInTransaction ==
    C4_Scope =>
        /\ ~Issued("ds.save")
        /\ Count("tx.save") <= 1
        /\ Issued("tx.save") =>
              /\ pc = "done" /\ outcome = "resolved"
              /\ tx.ops = <<[op |-> "save", key |-> KeyId, data |-> ent.data]>>
              /\ ~ent.hooksEnabled
              /\ tx.post = postHooksOf("save", schema.nPostSave)
              /\ HookRuns("post.save") # <<>> => tx.state = "committed"
        /\ (pc = "done" /\ outcome = "resolved") => Issued("tx.save")
        /\ (KeyId \in DOMAIN store /\ store[KeyId] # StoredRec) <=>
              (Issued("tx.save") /\ tx.state = "committed")

\* a transactional save with two post hooks, committed by the caller, the
\* hooks replayed
C4_Witness ==
    /\ C4_Scope /\ pc = "done" /\ outcome = "resolved"
    /\ schema.nPostSave = 2
    /\ tx.state = "committed"
    /\ Len(HookRuns("post.save")) = 2
    /\ store[KeyId] = ent.data

(***************************************************************************)
(* C5                                                                      *)
(***************************************************************************)
\* the call was rejected by the validation, the method check or the type
\* check of the transaction argument
C5_RejectedByCheck ==
    /\ ver = "ts" /\ pc = "done" /\ outcome = "rejected"
    /\ err \in {"ERR_VALIDATION", "ERR_METHOD", "ERR_TX_TYPE"}

\* C5 as stated: a save, update or delete rejected because of a validation
\* error, an invalid save method or a transaction argument that is not a
\* Transaction has issued none of ds.save, ds.delete, transaction.save,
\* transaction.delete, transaction.run.
C5_NoStoreOperation ==
    C5_RejectedByCheck =>
        Names \cap {"ds.save", "ds.delete", "tx.save", "tx.delete", "tx.run"} = {}

\* C5 amended: such a call has issued no write (ds.save, ds.delete,
\* transaction.save, transaction.delete); transaction.run has been issued
\* only by an update() that opened its own transaction, which it then asked
\* to roll back.
C5_NoWrite ==
    C5_RejectedByCheck =>
        /\ Names \cap {"ds.save", "ds.delete", "tx.save", "tx.delete"} = {}
        /\ Issued("tx.run") =>
              /\ call.op = "update" /\ internalTransaction
              /\ err = "ERR_VALIDATION"
              /\ Succeeded("tx.rollback")

\* update() without transaction argument, merged data invalid: run, get and
\* rollback were issued before the validation error came back
C5_Witness ==
    /\ C5_RejectedByCheck /\ call.op = "update" /\ err = "ERR_VALIDATION"
    /\ Issued("tx.run") /\ Issued("tx.get")

(***************************************************************************)
(* C6                                                                      *)
(***************************************************************************)
\* C6: the wrapped save runs only after every pre "save" hook registered on
\* the schema has resolved, in registration order. When one rejects, no
\* later pre hook and no post hook runs, neither ds.save nor
\* transaction.save is called, the save fails with the error of the hook and
\* the store holds what it held. (An update() that called the save rejects
\* with that error too, after rolling back the transaction it opened.)
C6_PreSaveHookAborts ==
    ver = "ts" =>
        /\ (Issued("ds.save") \/ Issued("tx.save")) =>
              HookRuns("pre.save") =
                  [k \in 1..schema.nPreSave |-> HookEv("pre.save", k, TRUE)]
        /\ \A j \in 1..Len(log) : (log[j].e = "pre.save" /\ ~log[j].ok) =>
              /\ \A i \in 1..Len(log) :
                    log[i].e \in {"pre.save", "post.save", "ds.save", "tx.save"}
                       => i <= j
              /\ call.op = "save" =>
                    (pc = "done" /\ outcome = "rejected" /\ err = "ERR_HOOK")
              /\ call.op = "update" =>
                    \/ pc = "update.rollback" /\ err = "ERR_HOOK"
                    \/ /\ pc = "done" /\ outcome = "rejected"
                       /\ err \in {"ERR_HOOK", "ERR_ROLLBACK"}
              /\ AllocatedId \notin DOMAIN store
              /\ KeyId \in DOMAIN store => store[KeyId] = StoredRec

\* the second of two pre "save" hooks rejected
C6_Witness ==
    /\ ver = "ts" /\ call.op = "save" /\ schema.nPreSave = 2
    /\ HookRuns("pre.save") =
          <<HookEv("pre.save", 1, TRUE), HookEv("pre.save", 2, FALSE)>>
    /\ pc = "done"

(***************************************************************************)
(* C7                                                                      *)
(***************************************************************************)
C7_Scope == ver = "ts" /\ call.op = "update" /\ internalTransaction

\* C7: in an update() that opened its own transaction, a post "save" hook
\* runs only after transaction.commit() has succeeded, none runs when the
\* commit fails, and the hooks that run are the registered ones in
\* registration order; all of them when none rejects.
C7_PostHooksAfterCommit ==
    C7_Scope =>
        /\ \A j \in 1..Len(log) : log[j].e = "post.save" =>
              /\ tx.state = "committed"
              /\ \E i \in 1..(j - 1) :
                    log[i].e = "tx.commit" /\ log[i].done /\ log[i].ok
        /\ (\E j \in 1..Len(log) :
               log[j].e = "tx.commit" /\ log[j].done /\ ~log[j].ok)
              => HookRuns("post.save") = <<>>
        /\ Len(HookRuns("post.save")) <= schema.nPostSave
        /\ \A k \in 1..Len(HookRuns("post.save")) : HookRuns("post.save")[k].i = k
        /\ (pc = "done" /\ tx.state = "committed" /\ ~HookFailed("post.save"))
              => Len(HookRuns("post.save")) = schema.nPostSave

\* two post "save" hooks replayed after the commit of the internal transaction
C7_Witness ==
    /\ C7_Scope /\ pc = "done" /\ schema.nPostSave = 2
    /\ HookRuns("post.save") =
          <<HookEv("post.save", 1, TRUE), HookEv("post.save", 2, TRUE)>>

(***************************************************************************)
(* C8                                                                      *)
(***************************************************************************)
PostHookNames == {"post.save", "post.delete"}

C9_Scope == ver \in {"ts", "js"} /\ call.op = "delete" /\ call.txArg = "external"

C9_State ==
    C9_Scope =>
        /\ ~Issued("ds.delete")
        /\ Count("tx.delete") <= 1
        /\ Issued("tx.delete") =>
              /\ pc = "done" /\ outcome = "resolved"
              /\ tx.ops = <<[op |-> "delete", key |-> KeyId]>>
              /\ ~modelHooksEnabled
              /\ tx.post = postHooksOf("delete", schema.nPostDelete)
              /\ HookRuns("post.delete") # <<>> => tx.state = "committed"
        /\ (pc = "done" /\ outcome = "resolved") => Issued("tx.delete")
        /\ Names \subseteq {"pre.delete", "tx.delete", "caller.commit", "post.delete"}

\* the store changes in the step that commits the caller's transaction only
C9_Step ==
    (C9_Scope /\ store' # store) =>
        /\ tx.state = "running" /\ tx'.state = "committed"
        /\ KeyId \in DOMAIN store /\ KeyId \notin DOMAIN store'

\* C9: Model.delete with a Transaction never calls ds.delete; past its pre
\* hooks it calls transaction.delete(key) exactly once, sets the model's
\* __hooksEnabled to false, makes the post "delete" hooks the post hooks of
\* the transaction without running them, and resolves in that same step,
\* having awaited no store or cache call. The entity stays in the store
\* until the caller commits the transaction.
C9_DeleteInTransaction == [](C9_State) /\ [][C9_Step]_vars

\* a transactional delete with two post hooks: resolved, entity still stored
C9_Witness ==
    /\ C9_Scope /\ pc = "done" /\ outcome = "resolved"
    /\ schema.nPostDelete = 2 /\ tx.post # <<>>
    /\ tx.state = "running" /\ KeyId \in DOMAIN store
    /\ ~modelHooksEnabled

(***************************************************************************)
(* C10                                                                     *)
(***************************************************************************)
C10_Scope ==
    /\ call.op = "deleteAll" /\ ver = "ts"
    /\ schema.nPreDelete = 0 /\ schema.nPostDelete = 0
    /\ da.n <= limitDataPerQuery

\* C10: a deleteAll() on a kind without delete hooks whose query answers
\* with N keys, N at most the query cap, issues store deletes of at most 500
\* keys each, the first starting at the first key of the query and each
\* next one at the key after the last key of the one before; when it
\* resolves there have been exactly ceil(N/500) of them and the last ended
\* at key N.
C10_Batches ==
    C10_Scope =>
        /\ \A k \in 1..Len(da.calls) :
              /\ da.calls[k].from <= da.calls[k].to
              /\ da.calls[k].to - da.calls[k].from + 1 <= maxEntitiesPerBatch
              /\ da.calls[k].from =
                    IF k = 1 THEN 1 ELSE da.calls[k - 1].to + 1
              /\ da.calls[k].to <= da.n
        /\ Len(da.calls) <= Ceil(da.n, maxEntitiesPerBatch)
        /\ (da.pc = "done" /\ da.outcome = "resolved") =>
              /\ Len(da.calls) = Ceil(da.n, maxEntitiesPerBatch)
              /\ da.n > 0 => da.calls[Len(da.calls)].to = da.n

\* 1200 entities: resolved after the batches 1..500, 501..1000, 1001..1200
C10_Witness ==
    /\ C10_Scope /\ da.n = 1200
    /\ da.pc = "done" /\ da.outcome = "resolved"
    /\ Len(da.calls) = 3
    /\ da.calls[1].from = 1 /\ da.calls[1].to = 500
    /\ da.calls[2].from = 501 /\ da.calls[2].to = 1000
    /\ da.calls[3].from = 1001 /\ da.calls[3].to = 1200

(***************************************************************************)
(* C11                                                                     *)
(***************************************************************************)
\* C11: during one deleteAll call at most one store delete is in flight at
\* any time, a batch or, with delete hooks, a single-entity delete being
\* started only after the one before has completed (here: part_002).
C11_OneDeleteInFlight == Cardinality(da.flying) <= 1

\* C11 for part_006: a store delete is in flight only while deleteAll waits
\* for it, and the one started last is the one waited for
C11_OneDeleteInFlight_ts ==
    /\ da.pc \in {"da.cache", "da.post", "da.timer", "da.query", "done"}
          => da.lo > da.cur.to \/ da.outcome = "rejected" \/ da.calls = <<>>
    /\ da.pc = "da.delete" => da.calls[Len(da.calls)] = da.cur

(***************************************************************************)
(* C12                                                                     *)
(***************************************************************************)
C12_Scope == call.op = "deleteAll" /\ ver = "ts" /\ da.n <= limitDataPerQuery

\* C12: with a delete hook registered on the kind, pre or post, every
\* delete call of deleteAll is for one entity, the calls follow the query
\* order one after the other, and when deleteAll resolves the registered
\* hooks have run once per entity; without delete hook a delete call gets
\* all the keys of its batch.
C12_OneDeletePerEntity ==
    C12_Scope =>
        IF schema.nPreDelete + schema.nPostDelete > 0
          THEN /\ \A k \in 1..Len(da.calls) :
                     da.calls[k].from = k /\ da.calls[k].to = k
               /\ da.preRuns <= Len(da.calls) + 1
               /\ da.postRuns <= Len(da.calls)
               /\ (da.pc = "done" /\ da.outcome = "resolved") =>
                     /\ Len(da.calls) = da.n
                     /\ schema.nPreDelete > 0 => da.preRuns = da.n
                     /\ schema.nPostDelete > 0 => da.postRuns = da.n
          ELSE /\ da.preRuns = 0 /\ da.postRuns = 0
               /\ \A k \in 1..Len(da.calls) :
                     da.calls[k].to =
                         Min(da.calls[k].from + maxEntitiesPerBatch - 1, da.n)

\* only a post "delete" hook is registered: two entities, two delete calls
C12_Witness ==
    /\ C12_Scope /\ schema.nPreDelete = 0 /\ schema.nPostDelete > 0
    /\ da.n = 2 /\ da.pc = "done" /\ da.outcome = "resolved"
    /\ Len(da.calls) = 2 /\ da.postRuns = 2

(***************************************************************************)
(* C13                                                                     *)
(***************************************************************************)
C13_Scope == call.op = "deleteAll" /\ ver = "ts"

\* a resolved deleteAll has just seen a query without key; a query sent
\* after the first one finds every batch of the answer before deleted
C13_State ==
    C13_Scope =>
        /\ (da.pc = "done" /\ da.outcome = "resolved") =>
              /\ da.entities.to < da.entities.from
              /\ da.lo > da.n
              /\ da.rounds = 1 + Ceil(da.n, limitDataPerQuery)
        /\ (da.pc = "da.query" /\ da.rounds > 1) =>
              /\ da.currentBatch = da.totalBatches
              /\ da.entities.from <= da.entities.to
              /\ da.lo = da.entities.to + 1

\* deleteAll resolves in the step that handles the answer of a query, and
\* the answer to a query with keys is a delete
C13_Step ==
    C13_Scope =>
        /\ (da.outcome = "pending" /\ da'.outcome = "resolved")
              => (da.pc = "da.query" /\ da.lo > da.n)
        /\ (da.pc = "da.query" /\ da.lo <= da.n /\ da'.outcome = "pending")
              => (da'.pc \in {"da.pre", "da.delete"} /\ da'.currentBatch = 0)

\* C13: deleteAll resolves with success only directly after a capped query
\* that returned no key; after a query that returned keys all its batches
\* are deleted and the capped query is sent again.
C13_QueryUntilEmpty == [](C13_State) /\ [][C13_Step]_vars

\* 100001 entities: resolved by the third query
C13_Witness ==
    /\ C13_Scope /\ da.n = limitDataPerQuery + 1
    /\ da.pc = "done" /\ da.outcome = "resolved" /\ da.rounds = 3

(***************************************************************************)
(* C14                                                                     *)
(***************************************************************************)
\* C14: with the cache active one deleteAll call invokes the invalidation
\* of the queries of the kind (clearQueriesByKind) at most once, with its
\* first batch, whatever the number of batches and of query rounds and
\* whether delete hooks are registered.
C14_ClearQueriesOnce ==
    (call.op = "deleteAll" /\ ver = "ts" /\ cacheOn) =>
        /\ da.clearCount <= 1
        /\ \A k \in 1..Len(da.calls) : da.calls[k].clearQueries => k = 1

\* C14 for one query round on a kind without delete hook
C14_ClearQueriesOnce_round ==
    (/\ call.op = "deleteAll" /\ ver = "ts" /\ cacheOn
     /\ ~hasPreDelete /\ da.n <= limitDataPerQuery) =>
        /\ da.clearCount <= 1
        /\ \A k \in 1..Len(da.calls) : da.calls[k].clearQueries <=> k = 1

(***************************************************************************)
(* Reading the trace of a populate call                                    *)
(***************************************************************************)
\* the store fetches (transaction.get or ds.get) that asked for key k
FetchesOf(k) ==
    {j \in 1..Len(pop.trace) :
        pop.trace[j].e = "fetch" /\ k \in pop.trace[j].keys}
\* the root records that held key k at the path before the call
HoldersOf(path, k) ==
    {i \in 1..Len(pop.before) : get(pop.before[i], path) = Key(k)}
Requested(path) ==
    \E l \in 1..Len(pop.refs) : \E j \in 1..Len(pop.refs[l]) :
        pop.refs[l][j].path = path
PopResolved == pop.pc = "done" /\ pop.outcome = "resolved"

\* C15: when populate has run on two or more root entities whose address
\* field holds the identical key, exactly one store fetch has been issued
\* for that key, with or without a transaction or a dataloader of the caller
C15_OneFetchPerKey ==
    \A k \in {Address1, Address2} :
        (/\ PopResolved
         /\ Requested(<<"address">>)
         /\ Cardinality(HoldersOf(<<"address">>, k)) >= 2)
        => Cardinality(FetchesOf(k)) = 1

\* the same with the DataLoader that populate creates itself
C15_OneFetchPerKey_dataloader ==
    pop.pc # "off" /\ pop.mode = "dataloader" => C15_OneFetchPerKey

\* the value root record i holds at the path now
ValueAt(i, path) == get(pop.entities[i], path)
\* the value is the projection of the entity with identifier k
Populated(v, k) == v.t = "object" /\ v.k = k

\* C16: when two reference paths of one level hold the identical key in one
\* root record and the referenced entity exists, both paths hold the
\* projected data of that entity after populate
C16_EachPathPopulated ==
    \A k \in {Address1, Address2} :
        \A i \in HoldersOf(<<"address">>, k) \cap HoldersOf(<<"other">>, k) :
            (/\ PopResolved
             /\ Requested(<<"address">>) /\ Requested(<<"other">>)
             /\ k \in pop.targets)
            => /\ Populated(ValueAt(i, <<"address">>), k)
               /\ Populated(ValueAt(i, <<"other">>), k)

\* positions of the trace holding an event of the kind at the level
TraceAt(e, level) ==
    {j \in 1..Len(pop.trace) :
        pop.trace[j].e = e /\ pop.trace[j].level = level}

\* C17: the levels are processed strictly in increasing depth order: when a
\* key lookup or a fetch of level n+1 starts, every fetch of level n has
\* been answered and the results of level n have been merged
C17_LevelsInOrder ==
    pop.pc # "off" =>
    \A j \in 1..Len(pop.trace) :
        (pop.trace[j].e \in {"lookup", "fetch"} /\ pop.trace[j].level > 1)
        => LET n == pop.trace[j].level - 1
           IN  /\ \E i \in TraceAt("merge", n) : i < j
               /\ Cardinality(TraceAt("fetched", n))
                    = Cardinality(TraceAt("fetch", n))
               /\ \A h \in TraceAt("fetch", n) \cup TraceAt("fetched", n) :
                     \A i \in TraceAt("merge", n) : h < i

\* a key found in the data merged at level 1 is fetched at level 2
C17_Witness ==
    /\ pop.pc # "off"
    /\ TraceAt("fetch", 1) # {}
    /\ \E j \in TraceAt("fetch", 2) : AddressBook1 \in pop.trace[j].keys
    /\ Len(pop.entities) = 2

Roots == IF pop.pc = "off" THEN {} ELSE 1..Len(pop.entities)
\* the paths asked for at the first level
RequestedAtLevel0 ==
    IF pop.pc = "off" \/ pop.refs = <<>> THEN {}
    ELSE {pop.refs[1][j].path : j \in 1..Len(pop.refs[1])}
\* the record held no value at the path before the call
AbsentBefore(i, path) == Falsy(get(pop.before[i], path))
\* the record held the key of an entity the store does not have
MissingTarget(i, path) ==
    LET v == get(pop.before[i], path)
    IN  isKey(v) /\ v.k \notin pop.targets

\* C18 (absent path): a requested path without value holds null afterwards
C18_AbsentIsNull ==
    PopResolved =>
        \A i \in Roots : \A path \in RequestedAtLevel0 :
            AbsentBefore(i, path) => ValueAt(i, path) = Null

\* C18: after populate every requested path whose value was absent, and
\* every requested path whose referenced entity is not in the store, holds
\* null, and populate has not failed for it
C18_NullWhenAbsentOrMissing ==
    /\ C18_AbsentIsNull
    /\ PopResolved =>
          \A i \in Roots : \A path \in RequestedAtLevel0 :
              MissingTarget(i, path) => ValueAt(i, path) = Null
    /\ (pop.pc = "done" /\ pop.outcome = "rejected")
          => pop.err \in {"ERR_NOT_A_KEY", "ERR_TYPE", "ERR_STORE"}

\* the same for plain records read with the DataLoader, with one level of
\* references and one path per key
C18_NullWhenAbsentOrMissing_plain ==
    (/\ pop.pc # "off" /\ ~pop.isEntityClass
     /\ pop.mode \in {"dataloader", "callerDataloader"}
     /\ Len(pop.refs) <= 1
     /\ <<"other">> \notin RequestedAtLevel0)
    => C18_NullWhenAbsentOrMissing

\* C19 (no throw): with address.addressBook requested on records whose
\* address holds no key, populate ends without error
C19_DoesNotThrow ==
    (/\ pop.pc = "done"
     /\ Requested(<<"address", "addressBook">>)
     /\ ~Requested(<<"other">>)
     /\ \A i \in Roots : AbsentBefore(i, <<"address">>))
    => pop.outcome = "resolved"

\* C19: populate with the path address.addressBook on a root record whose
\* address field holds no key (absent or null) does not throw, and the
\* address of the record holds no value after the call, as before
C19_AddressUntouched ==
    /\ C19_DoesNotThrow
    /\ (PopResolved /\ Requested(<<"address", "addressBook">>))
          => \A i \in Roots :
                AbsentBefore(i, <<"address">>)
                => Falsy(ValueAt(i, <<"address">>))

Selected(select, k) ==
    [field \in Range(select) |->
        IF field \in DOMAIN TargetData(k) THEN TargetData(k)[field] ELSE Null]
\* a call with one level and one reference path
OnePath == pop.pc # "off" /\ Len(pop.refs) = 1 /\ Len(pop.refs[1]) = 1

\* C21: with a selection list that does not contain '*' the object spliced
\* at the reference path holds exactly the selected fields, each with the
\* stored value of the referenced entity (null without such a field), and
\* its identifier; with an empty list or '*' it is the plain representation
\* and the identifier
C21_Projection ==
    (PopResolved /\ OnePath) =>
    LET ref == pop.refs[1][1]
    IN  \A i \in Roots :
           LET v == get(pop.before[i], ref.path)
           IN  (isKey(v) /\ v.k \in pop.targets)
               => ValueAt(i, ref.path)
                    = IF ref.select # <<>> /\ "*" \notin Range(ref.select)
                      THEN Obj(v.k, Selected(ref.select, v.k))
                      ELSE Obj(v.k, plain(TargetData(v.k)))

\* the same when every selected field the store holds is truthy
C21_Projection_truthy ==
    (OnePath /\ \A i \in Roots :
        LET v == get(pop.before[i], pop.refs[1][1].path)
        IN  isKey(v) => \A field \in DOMAIN Selected(pop.refs[1][1].select, v.k) :
                           ~Falsy(Selected(pop.refs[1][1].select, v.k)[field])
                           \/ field \notin DOMAIN TargetData(v.k))
    => C21_Projection

\* C22: populating a reference field and then saving the entity writes the
\* original key at that field to the store, never the populated object,
\* for a full projection and for a projection of selected fields
C22_SaveWritesKey ==
    (pop.pc = "saved" /\ OnePath /\ Len(pop.entities) = 1) =>
        LET v == get(pop.before[1], pop.refs[1][1].path)
        IN  (isKey(v) /\ v.k \in pop.targets /\ pop.err # "ERR_STORE")
            => /\ pop.written # <<>>
               /\ get(pop.written[1], pop.refs[1][1].path) = v

\* the same for the projections that are a plain representation
C22_SaveWritesKey_full ==
    (OnePath /\ (pop.refs[1][1].select = <<>>
                    \/ "*" \in Range(pop.refs[1][1].select)))
    => C22_SaveWritesKey

\* the cache invalidation of the call has failed
CacheClearFailed ==
    \E j \in 1..Len(log) :
        log[j].e = "cache.clear" /\ log[j].done /\ ~log[j].ok
\* the mutation of the call is in the store
Persisted ==
    IF call.op = "delete" THEN KeyId \notin DOMAIN store
    ELSE \E k \in DOMAIN store : store[k] = ent.data

\* C23: when the cache invalidation fails after a successful save, update
\* or delete (part_006, entity.js), the call is rejected with the cache
\* error, which carries the result of the mutation and the error of the
\* cache, and the mutation stays in the store
C23_CacheErrorKeepsResult ==
    (/\ ver = "ts" /\ pc = "done" /\ CacheClearFailed
     /\ call.txArg = "none")
    => /\ outcome = "rejected" /\ err = "ERR_CACHE"
       /\ Persisted

\* the same for save, delete and update with replace: the calls that open
\* no transaction
C23_CacheErrorKeepsResult_noTx ==
    ~internalTransaction => C23_CacheErrorKeepsResult

\* update() with its own transaction: the mutation stays in the store, the
\* error is the cache error or the error of the rollback
C23_CacheErrorKeepsResult_update ==
    (/\ ver = "ts" /\ pc = "done" /\ CacheClearFailed
     /\ internalTransaction)
    => /\ outcome = "rejected" /\ err \in {"ERR_CACHE", "ERR_ROLLBACK"}
       /\ Persisted /\ tx.state = "committed"

(***************************************************************************)
(* sanitize                                                                *)
(***************************************************************************)
Sanitized == fn.pc \in {"once", "twice"} /\ fn.op = "sanitize"
\* the output of sanitize has no property that the schema does not declare
OnlyDeclared == isObject(fn.out) => DOMAIN fn.out.f \subseteq DOMAIN SanPaths

SanitizedTwice ==
    fn.pc = "twice" /\ fn.op = "sanitize" /\ isObject(fn.data)

\* C25: sanitize is idempotent, sanitize(sanitize(record)) equals
\* sanitize(record) for every schema and record, and sanitize does not
\* modify the record passed in (part_006, part_003, part_002)
C25_IdempotentAndPure ==
    /\ SanitizedTwice => fn.out2 = fn.out
    /\ (Sanitized /\ isObject(fn.data)) => fn.arg = fn.data

\* C25, the first half: the second sanitize returns what the first returned
C25_Idempotent == SanitizedTwice => fn.out2 = fn.out

\* C25, the second half for part_006 and part_003, which work on a copy
C25_InputKept_copy ==
    (Sanitized /\ isObject(fn.data) /\ ver \in {"ts", "js"})
    => fn.arg = fn.data

\* part_002 sanitized a record with an undeclared property
C25_Witness_inPlace ==
    /\ Sanitized /\ ver = "cb" /\ isObject(fn.data)
    /\ "z" \in DOMAIN fn.data.f /\ fn.arg # fn.data

(***************************************************************************)
(* the save paths                                                          *)
(***************************************************************************)
\* the positions of fn.trace where the record is validated or written
Consumes(i) == fn.trace[i].ev \in {"validate", "transaction.save", "ds.save"}
\* sanitize would change the record
Unsanitized(rec) == sanitizeOf(ver, fn.provided, rec, TRUE) # rec
\* sanitize ran before position i
SanitizedBefore(i) == \E j \in 1..(i - 1) : fn.trace[j].ev = "sanitize"
\* a save path of the claim: gstore.save() counts with its validate option
SavePath ==
    fn.op = "save" /\ (fn.path = "gstore.save" => fn.validate)
SaveInOrder ==
    \A i \in 1..Len(fn.trace) :
        Consumes(i) => SanitizedBefore(i) /\ ~Unsanitized(fn.trace[i].rec)

\* C26: on every save path (entity.save() with or without a transaction,
\* Model.update() and gstore.save() with the validate option) the record is
\* sanitized before it is validated, and no record is validated or written
\* unsanitized
C26_SanitizedBeforeValidated == SavePath => SaveInOrder

\* C26 for entity.save() of lib/entity.js with its default options, which
\* Model.update() ends in: sanitize comes first
C26_EntitySaveDefault ==
    (/\ fn.op = "save" /\ ver = "ts" /\ fn.sanitizeEntityData
     /\ fn.path \in {"entity.save", "Model.update"})
    => SaveInOrder

\* C26 for the save() of part_003, where validate() sanitizes: in order
\* when the schema validates before save
C26_ValidateSanitizes ==
    (/\ fn.op = "save" /\ ver = "js" /\ schema.validateBeforeSave
     /\ fn.path \in {"entity.save", "Model.update"})
    => SaveInOrder

\* gstore.save() with the validate option wrote a record that sanitize
\* would change, and sanitize never ran
C26_Witness_gstoreSave ==
    /\ fn.op = "save" /\ fn.pc = "done" /\ ver = "ts"
    /\ fn.path = "gstore.save" /\ fn.validate
    /\ Len(fn.trace) = 2 /\ fn.trace[1].ev = "validate"
    /\ Unsanitized(fn.trace[2].rec)

(***************************************************************************)
(* the key of a new entity                                                 *)
(***************************************************************************)
\* new Model(data, id) returned or threw, no key argument given
Constructed == fn.op = "construct" /\ fn.pc = "done" /\ ~fn.keyArg

\* C27, the conversions: the id "123" gives the integer identifier 123
\* when the schema has no keyType, and the name "123" with keyType "name"
C27_IntegerLookingId ==
    (Constructed /\ fn.id = IdStr(<<"1", "2", "3">>))
    => /\ fn.keyType = "unset"
          => fn.entityKey.ident = "id" /\ fn.entityKey.n = 123
       /\ fn.keyType = "name"
          => fn.entityKey = EntityKey("name", <<"1", "2", "3">>, 0)

\* C27: an entity constructed with the id "123" gets the integer
\* identifier 123 without keyType and keeps the name "123" with keyType
\* "name", and an id that is neither a string nor a number makes the
\* construction fail
C27_CreateKey ==
    /\ C27_IntegerLookingId
    /\ (Constructed /\ fn.id.t \notin {"string", "number"})
       => fn.entityKey = KeyThrow

\* the id false, which is neither a string nor a number, gave a partial key
C27_Witness_falsyId ==
    /\ Constructed /\ fn.id = IdOther("false")
    /\ fn.entityKey = PartialKey

\* C27 for the ids that pass `if (id)`: one that is neither a string nor a
\* number makes the construction fail
C27_TruthyIdChecked ==
    (Constructed /\ truthy(fn.id) /\ fn.id.t \notin {"string", "number"})
    => fn.entityKey = KeyThrow

(***************************************************************************)
(* the registry of models                                                  *)
(***************************************************************************)
\* the last call of gstore.model(), and what it found
ModelCalled == fn.op = "model" /\ fn.calls > 0
WasCached == fn.last.before[fn.last.entityKind] # NoModel
CachedBefore == fn.last.before[fn.last.entityKind]
SameOrNoSchema ==
    fn.last.arg = "none"
    \/ (fn.last.arg \in {"S1", "S2"}
        /\ fn.last.schema = CachedBefore.schema)
\* a second, different Schema for a cached kind throws and leaves the
\* registry as it was
OverrideThrows ==
    (/\ WasCached /\ fn.last.cache /\ fn.last.arg \in {"S1", "S2"}
     /\ fn.last.schema # CachedBefore.schema)
    => fn.last.result = "Trying to override" /\ fn.models = fn.last.before
\* a cached model stays, with its schema
CachedKept ==
    \A k \in Kinds :
        fn.last.before[k] # NoModel => fn.models[k] = fn.last.before[k]
\* cache: false adds nothing
UncachedNotAdded == ~fn.last.cache => fn.models = fn.last.before

\* C28: after any sequence of gstore.model(kind, schema, options) calls, a
\* second, different Schema for a kind with a cached model throws and
\* leaves the registry unchanged, the cached model keeps its schema, a call
\* with the same schema or no schema returns the cached model, and a call
\* with cache: false adds no model to the registry
C28_Registry ==
    ModelCalled =>
        /\ OverrideThrows
        /\ CachedKept
        /\ (WasCached /\ SameOrNoSchema)
           => fn.last.result = "ok" /\ fn.last.model = CachedBefore
        /\ UncachedNotAdded

\* C28 amended: the cached model is returned for the same Schema instance
\* or no schema when the options do not say cache: false
C28_RegistryUnlessUncached ==
    ModelCalled =>
        /\ OverrideThrows
        /\ CachedKept
        /\ (WasCached /\ fn.last.cache /\ SameOrNoSchema)
           => fn.last.result = "ok" /\ fn.last.model = CachedBefore
        /\ UncachedNotAdded

\* C28 amended, the other calls for a cached kind: with cache: false a new
\* model is compiled, or the call throws without a schema; a plain object
\* is a new Schema and throws
C28_UncachedOrPlain ==
    (ModelCalled /\ WasCached) =>
        /\ (~fn.last.cache /\ fn.last.arg # "none")
           => /\ fn.last.result = "ok"
              /\ fn.last.model.serial # CachedBefore.serial
        /\ (~fn.last.cache /\ fn.last.arg = "none")
           => fn.last.result = "TypeError"
        /\ (fn.last.cache /\ fn.last.arg = "plain")
           => fn.last.result = "Trying to override"

\* Blog is cached with one Schema and a call with the other one threw
C28_Witness ==
    /\ ModelCalled /\ fn.last.entityKind = "Blog" /\ fn.last.arg = "S2"
    /\ fn.models["Blog"].schema = 1 /\ fn.last.cache
    /\ fn.last.result = "Trying to override"
    /\ fn.models["User"] # NoModel

(***************************************************************************)
(* the list of exclusions of a new entity                                  *)
(***************************************************************************)
Built == fn.op = "build" /\ fn.pc = "done"
\* the entries the claim gives a path: k for a field that is not an array
\* and has excludeFromIndexes true, k.sub for an embedded field and k[].sub
\* for an array field
ClaimedOf(k, prop) ==
    LET isArray == prop.type \in {"array", "joiArray"}
    IN  IF prop.excludeFromIndexes = <<"true">>
        THEN IF isArray THEN <<>> ELSE <<k>>
        ELSE IF prop.excludeFromIndexes = <<"false">> THEN <<>>
        ELSE formatted(k, IF isArray THEN "[]." ELSE ".",
                       prop.excludeFromIndexes)
\* the entries of the paths that are in the record
ClaimedList ==
    LET of(k) == IF k \in fn.entityData THEN ClaimedOf(k, fn.paths[k])
                 ELSE <<>>
    IN  of("bio") \o of("tags")

\* C29: after construction the list of exclusions of an entity has exactly
\* one entry per excluded path of a field present in its record: k, k.sub
\* for an embedded field, k[].sub for an array field
C29_ExclusionList == Built => fn.excludeFromIndexes = ClaimedList

\* C29 for schemas without Joi whose paths are not optional, where every
\* path is in the record: the list is the one claimed
C29_ExclusionList_defaults ==
    (/\ Built /\ ~fn.isJoi
     /\ ~fn.paths.bio.optional /\ ~fn.paths.tags.optional)
    => fn.excludeFromIndexes = ClaimedList

\* C29, the scenario: bio excluded, record {bio: "text"}, gives <<"bio">>
C29_ScenarioB ==
    (/\ Built /\ fn.paths.bio = PathDef("string", <<"true">>, TRUE)
     /\ fn.paths.tags.excludeFromIndexes = <<>> /\ fn.given = {"bio"})
    => fn.excludeFromIndexes = <<"bio">>

\* a Joi array with an excluded sub-path that is in the record got the
\* entry of an embedded field
C29_Witness_joiArray ==
    /\ Built /\ fn.paths.tags = PathDef("joiArray", <<"sub">>, FALSE)
    /\ "tags" \in fn.entityData
    /\ fn.excludeFromIndexes = <<"tags.sub">>

(***************************************************************************)
(* an entity that is not in the store                                      *)
(***************************************************************************)
\* the read was answered and the store had no record for the key
NotFound ==
    /\ fn.op = "get" /\ fn.pc = "done" /\ ~fn.stored
    /\ fn.result.err # "ERR_STORE"
NotFoundResult ==
    IF fn.errorOnEntityNotFound
    THEN GetResult("rejected", "none", "ERR_ENTITY_NOT_FOUND")
    ELSE GetResult("resolved", "null", "")

\* C30: Model.get for one id and entity.datastoreEntity(), when the store
\* has no record for the key, reject with the entity-not-found error if and
\* only if errorOnEntityNotFound is on and otherwise resolve with null, and
\* the record the entity has in memory is unchanged
C30_NotFound ==
    NotFound => fn.result = NotFoundResult /\ fn.entityData = "memory"

\* C30 without .populate() chained to Model.get
C30_NotFound_unchained ==
    (NotFound /\ ~fn.chained)
    => fn.result = NotFoundResult /\ fn.entityData = "memory"

\* Model.get(id).populate() for a missing entity resolved with undefined
C30_Witness_undefined ==
    /\ NotFound /\ fn.path = "Model.get" /\ fn.chained
    /\ ~fn.errorOnEntityNotFound
    /\ fn.result = GetResult("resolved", "undefined", "")

(***************************************************************************)
(* the context of the post hooks of a transaction                          *)
(***************************************************************************)
PostHooksReplayed == fn.op = "hooksTransaction" /\ fn.pc = "done"

\* C31: every post hook replayed by transaction.execPostHooks() runs with
\* the entity or model that registered it as its context, also when several
\* entities or models registered post hooks on the transaction
C31_HookContext ==
    PostHooksReplayed
    => \A k \in 1..Len(fn.ran) : fn.ran[k].this = fn.ran[k].hook.owner

\* C31 when the one that called hooksTransaction last is the only one that
\* registered hooks
C31_HookContext_lastOnly ==
    (/\ PostHooksReplayed
     /\ \A k \in 1..Len(fn.tx.post) : fn.tx.post[k].owner = fn.tx.scope)
    => \A k \in 1..Len(fn.ran) : fn.ran[k].this = fn.ran[k].hook.owner

\* every hook is replayed once, in the order of registration
C31_HooksReplayedInOrder ==
    PostHooksReplayed
    => /\ Len(fn.ran) = Len(fn.tx.post)
       /\ \A k \in 1..Len(fn.ran) : fn.ran[k].hook = fn.tx.post[k]

\* the post save hook of entityA ran with entityB as its context
C31_Witness_otherContext ==
    /\ PostHooksReplayed /\ Len(fn.ran) >= 2
    /\ fn.ran[1].hook.owner = "entityA" /\ fn.ran[1].this = "entityB"
    /\ fn.ran[2].hook.owner = "entityB"

(***************************************************************************)
(* entity.plain()                                                          *)
(***************************************************************************)
PlainCalled == fn.op = "plain" /\ fn.calls > 0
\* the object returned has no property read: false and no excluded
\* property of an embedded object
ReadFiltered ==
    /\ DOMAIN fn.data \cap PlainReadFalse = {}
    /\ \A k \in DOMAIN excludeFromRead \cap DOMAIN fn.data :
          fn.data[k].t = "object"
          => DOMAIN fn.data[k].f \cap excludeFromRead[k] = {}
\* the object returned has every property of the record as it was
ReadAll == \A k \in DOMAIN fn.before \ {"id"} :
              k \in DOMAIN fn.data /\ fn.data[k] = fn.before[k]

\* C32: entity.plain() leaves out every property declared read: false and
\* every excludeFromRead path unless readAll is set, returns all of them
\* with readAll, and always has id equal to the last segment of the path
\* of the key
C32_Plain ==
    PlainCalled
    => /\ ~fn.threw
       /\ IF fn.options.readAll THEN ReadAll ELSE ReadFiltered
       /\ fn.data.id = KeyLast

\* C32 for a record without a property id whose embedded property, if it
\* is shown, is an object
C32_Plain_objects ==
    (/\ PlainCalled /\ "id" \notin DOMAIN fn.before
     /\ ("embedded" \in DOMAIN fn.before
            => fn.before.embedded.t = "object"))
    => /\ ~fn.threw
       /\ IF fn.options.readAll THEN ReadAll ELSE ReadFiltered
       /\ fn.data.id = KeyLast

\* plain() threw for a record whose embedded property is null
C32_Witness_threw ==
    /\ PlainCalled /\ fn.calls = 1 /\ fn.threw
    /\ fn.before.embedded = Null /\ ~fn.options.readAll

\* C40: entity.plain(options) leaves the record of the entity unchanged
\* for every options: after plain() entityData has the same properties and
\* nested values as before
C40_PlainKeepsRecord == PlainCalled => fn.entityData = fn.before

\* C40 for plain({readAll: true}) without virtuals, and for records
\* without an embedded object when virtuals is off
C40_PlainKeepsRecord_readAll ==
    (/\ PlainCalled /\ ~fn.options.virtuals
     /\ \/ fn.options.readAll
        \/ "embedded" \notin DOMAIN fn.before
        \/ fn.before.embedded.t # "object"
        \/ DOMAIN fn.before.embedded.f \cap excludeFromRead.embedded = {})
    => fn.entityData = fn.before

\* after plain() the record of the entity has lost embedded.prop1, and
\* plain({readAll: true}) does not return it
C40_Witness_lost ==
    /\ PlainCalled /\ fn.calls = 2 /\ fn.options.readAll /\ ~fn.threw
    /\ "embedded" \in DOMAIN fn.data /\ fn.data.embedded.t = "object"
    /\ "prop1" \notin DOMAIN fn.data.embedded.f
    /\ "prop3" \in DOMAIN fn.data.embedded.f

(***************************************************************************)
(* sanitize and the properties that are not writable                       *)
(***************************************************************************)
\* the output has no property declared with write: false
NoUnwritable ==
    \A k \in DOMAIN fn.out.f \ {"KEY"} :
        k \in DOMAIN SanPaths => SanPaths[k].write
\* a property of the record with the value "null" is null in the output
NullNormalised ==
    \A k \in (DOMAIN fn.out.f \cap DOMAIN fn.data.f) \ {"KEY"} :
        fn.data.f[k] = Str("null") => fn.out.f[k] = Null

\* C33: for every schema, explicit-only or not, the output of sanitize has
\* no property declared with write: false unless sanitize is called with
\* 'write' in options.disabled, and every property whose value is the
\* string "null" is returned as null (part_006, part_003, part_002)
C33_Unwritable ==
    (Sanitized /\ isObject(fn.data))
    => /\ ~fn.writeDisabled => NoUnwritable
       /\ NullNormalised

\* C33 for part_006 and part_003
C33_Unwritable_copy ==
    (Sanitized /\ isObject(fn.data) /\ ver \in {"ts", "js"})
    => /\ ~fn.writeDisabled => NoUnwritable
       /\ NullNormalised

\* C33 for part_002: "null" becomes null, and the properties that are not
\* writable are removed unless explicitOnly is false
C33_Unwritable_explicit ==
    (Sanitized /\ isObject(fn.data) /\ ver = "cb")
    => /\ fn.provided.explicitOnly # "false" => NoUnwritable
       /\ NullNormalised

\* part_002 with explicitOnly false returned the property w, which is not
\* writable
C33_Witness_kept ==
    /\ Sanitized /\ ver = "cb" /\ fn.provided.explicitOnly = "false"
    /\ isObject(fn.out) /\ "w" \in DOMAIN fn.out.f

(***************************************************************************)
(* the record Model.update saves                                           *)
(***************************************************************************)
Updated == fn.op = "update" /\ fn.pc = "done"
\* sanitize keeps the property: it is declared, or the schema is not
\* explicitOnly
KeptBySchema(k) ==
    k \in DOMAIN SanPaths \/ fn.provided.explicitOnly = "false"
\* the properties of data that hold a value
Given == {k \in DOMAIN fn.data.f : fn.data.f[k] # Undef}

C36_CommitXorRollback ==
    (ver = "ts" /\ call.op = "update" /\ internalTransaction)
    => ~(Succeeded("tx.commit") /\ Issued("tx.rollback"))

\* the same as long as the cache invalidation does not fail
C36_CommitXorRollback_cacheOk ==
    ~CacheClearFailed => C36_CommitXorRollback

\* an update whose commit succeeded, whose cache invalidation failed and
\* whose transaction was then asked to roll back
C36_Witness_rollbackAfterCommit ==
    /\ ver = "ts" /\ call.op = "update" /\ internalTransaction
    /\ pc = "done" /\ tx.state = "committed" /\ CacheClearFailed
    /\ Issued("tx.rollback")

(***************************************************************************)
(* the dataloader entry of the key update() writes                         *)
(***************************************************************************)
\* C38: in Model.update with an internal transaction and a dataloader given
\* by the caller, the entry of the key is cleared only after the commit has
\* succeeded, so that once update has resolved no overlapping read has left
\* the record from before the update in the dataloader
C38_ClearAfterCommit ==
    fn.op = "dataloader"
    => /\ fn.cleared => fn.clearedAfterCommit
       /\ fn.pc = "resolved" => fn.cached # "before"

\* without a load between clear and commit the entry is never stale
C38_ClearAfterCommit_noLoad ==
    (fn.op = "dataloader" /\ fn.pc = "resolved" /\ fn.loads = 0)
    => fn.cached # "before"

\* update has resolved, the store holds the new record and the dataloader
\* the old one, fetched between clear and commit
C38_Witness_stale ==
    /\ fn.op = "dataloader" /\ fn.pc = "resolved"
    /\ fn.record = "after" /\ fn.cached = "before" /\ fn.cleared

(***************************************************************************)
(* the hooks flag of the Model under overlapping deletes                   *)
(***************************************************************************)
\* C37: a Model.delete without transaction that succeeds completes with the
\* hooks flag of the Model still true, so that its post delete hooks run,
\* whatever other delete calls on the same Model overlap with it
C37_HooksFlagKept ==
    (fn.op = "overlap" /\ fn.pc = "resolved")
    => fn.atCompletion /\ fn.postRan = schema.nPostDelete

\* the same for a delete that no transactional delete overlapped
C37_HooksFlagKept_alone ==
    (fn.op = "overlap" /\ fn.pc = "resolved" /\ ~fn.overlapped)
    => fn.atCompletion /\ fn.postRan = schema.nPostDelete

\* a delete resolved without its post hook: a transactional delete cleared
\* the flag while ds.delete was in flight
C37_Witness_suppressed ==
    /\ fn.op = "overlap" /\ fn.pc = "resolved" /\ fn.overlapped
    /\ schema.nPostDelete = 1 /\ fn.postRan = 0 /\ ~fn.atCompletion

(***************************************************************************)
(* Model.key and the key of an entity                                      *)
(***************************************************************************)
\* two keys name the same entity: both an id of the same value, or both
\* the same name
SameKey(k1, k2) ==
    /\ k1.ident = k2.ident
    /\ k1.ident = "id" => k1.n = k2.n
    /\ k1.ident = "name" => k1.s = k2.s
KeysBuilt == fn.op = "key" /\ fn.pc = "done"

\* C39: for every id (a number, a numeric string, a string that is not
\* numeric) and every keyType of the schema, the key Model.key(id) builds
\* for get, update and delete equals the key of an entity constructed with
\* the same id
C39_SameKey ==
    KeysBuilt => SameKey(fn.modelKey, fn.entityKey)

\* the two keys agree for a number other than 0, and for a string that is
\* not numeric unless the keyType is "id"
C39_SameKey_unparsed ==
    (/\ KeysBuilt
     /\ \/ fn.id.t = "number" /\ fn.id.n # 0
        \/ /\ fn.id.t = "string" /\ fn.id.s # <<>> /\ ~isFinite(fn.id.s)
           /\ fn.keyType # "id")
    => SameKey(fn.modelKey, fn.entityKey)

\* Model.key('123') is the name '123', the entity has the id 123
C39_Witness_nameVsId ==
    /\ KeysBuilt /\ ver = "ts" /\ fn.keyType = "unset"
    /\ fn.id = IdStr(<<"1", "2", "3">>)
    /\ fn.modelKey = EntityKey("name", <<"1", "2", "3">>, 0)
    /\ fn.entityKey.ident = "id" /\ fn.entityKey.n = 123

====
